---------------------------- MODULE Spec2Model ----------------------------
(***************************************************************************)
(* The analytics engine of the quant_web dashboard: the FIFO round-trip    *)
(* matcher (winRateCalculator), the daily-series statistics                *)
(* (performanceMetrics), the benchmark-relative statistics                 *)
(* (benchmarkMetrics), the orchestrator calculateAllMetrics                *)
(* (metric_utils/index.js) and the chart-series builder of App.js.         *)
(*                                                                         *)
(* JavaScript numbers are modelled as exact rationals [n, d] (d > 0, in    *)
(* lowest terms).  JavaScript objects that the code mutates live in a      *)
(* heap (a sequence of records, an address is an index), so that aliasing  *)
(* between the caller's objects and the engine's working objects is        *)
(* visible.  A property an object does not have is a field the record      *)
(* does not have; the values undefined and null are the strings below.     *)
(***************************************************************************)
EXTENDS Integers, Sequences, FiniteSets, TLC

VARIABLES
    heap,               \* objects: the caller's transactions, then the lots pushed by calculateWinRate
    transactions,       \* the caller's array: Just(a sequence of heap addresses), or Nothing
    pc,                 \* position of the running function
    sortedTransactions, \* calculateWinRate: the sorted copy of the array
    pos,                \* calculateWinRate: index of the forEach iteration
    stockPositions,     \* calculateWinRate: code -> [buyQueue, roundTrips]
    winRateResult,      \* calculateWinRate: the returned record, NoResult before it returns
    dailyPerformances,  \* calculateMaxDrawdown: its argument, Just(sequence of day records) or Nothing
    drawdownLocals,     \* calculateMaxDrawdown: i, peakReturn, peakIdx, maxDD, maxDDPeakIdx, maxDDTroughIdx
    drawdownMetrics,    \* calculateMaxDrawdown: the returned record, NoResult before it returns
    benchmarkArgs,      \* calculateAlphaBeta, calculateInformationRatio: the arguments
                        \* [strategyReturns, benchmarkReturns, totalStrategyReturn,
                        \*  totalBenchmarkReturn, riskFreeRate]
    alphaBeta,          \* calculateAlphaBeta: the returned record, NoResult before it returns
    informationRatio,   \* calculateInformationRatio: the returned number, NoResult before
    performance,        \* calculateAllMetrics: argument, Just(record) or Nothing
    benchmarkData,      \* calculateAllMetrics: argument, Just(record) or Nothing
    metrics,            \* calculateAllMetrics: the records returned by the calls made so far
                        \* (in the chart: by the call of the last render)
    dailyPnl,           \* App state: the daily portfolio values, [date, value]
    valueDisplayMode,   \* App state: "absolute" or "percentage"
    chartData,          \* the data handed to the LineChart by the last render
    app,                \* App state: the selection, the flags and the stored data
    toasts,             \* App state: the displayed toasts, [id, message, type]
    timers,             \* the pending setTimeout of each displayed Toast, in ticks
    now,                \* Date.now(), in ticks
    fetchTask,          \* the running fetchAllData call: [pc, silent, results, idx]
    requestLog          \* the data requests sent so far, each with what started it

winRateVars == <<heap, transactions, sortedTransactions, pos, stockPositions, winRateResult>>
drawdownVars == <<dailyPerformances, drawdownLocals, drawdownMetrics>>
benchmarkVars == <<benchmarkArgs, alphaBeta, informationRatio>>
metricsVars == <<performance, benchmarkData, metrics>>
chartVars == <<dailyPnl, valueDisplayMode, chartData>>
dashboardVars == <<app, toasts, timers, now, fetchTask, requestLog>>
vars == <<pc, winRateVars, drawdownVars, benchmarkVars, metricsVars, chartVars, dashboardVars>>

UnusedWinRate ==
    /\ heap = <<>> /\ transactions = <<>> /\ sortedTransactions = <<>>
    /\ pos = 0 /\ stockPositions = <<>> /\ winRateResult = <<>>

UnusedDrawdown ==
    dailyPerformances = <<>> /\ drawdownLocals = <<>> /\ drawdownMetrics = <<>>

UnusedBenchmark ==
    benchmarkArgs = <<>> /\ alphaBeta = <<>> /\ informationRatio = <<>>

UnusedMetrics ==
    performance = <<>> /\ benchmarkData = <<>> /\ metrics = <<>>

UnusedChart ==
    dailyPnl = <<>> /\ valueDisplayMode = "" /\ chartData = <<>>

UnusedDashboard ==
    /\ app = <<>> /\ toasts = <<>> /\ timers = <<>> /\ now = 0
    /\ fetchTask = <<>> /\ requestLog = <<>>

Null == "null"
Undefined == "undefined"

\* An argument or property that may be null or undefined: Nothing, or Just(value).
Nothing == <<>>
Just(v) == <<v>>
IsNothing(m) == m = <<>>
Value(m) == m[1]

\* The value of a result variable before the function has returned.
NoResult == [pending |-> TRUE]

-----------------------------------------------------------------------------
(* Exact rational arithmetic standing for JavaScript's number operations.  *)

RECURSIVE Gcd(_, _)
Gcd(a, b) == IF b = 0 THEN a ELSE Gcd(b, a % b)

Abs(x) == IF x < 0 THEN -x ELSE x

Rat(n, d) ==
    LET s == IF d < 0 THEN -1 ELSE 1
        g == Gcd(Abs(n), Abs(d))
    IN  [n |-> (s * n) \div g, d |-> (s * d) \div g]

Zero == Rat(0, 1)
One == Rat(1, 1)
Num(i) == Rat(i, 1)
Lcm(a, b) == (a \div Gcd(a, b)) * b
Add(x, y) == LET d == Lcm(x.d, y.d) IN Rat(x.n * (d \div x.d) + y.n * (d \div y.d), d)
Sub(x, y) == LET d == Lcm(x.d, y.d) IN Rat(x.n * (d \div x.d) - y.n * (d \div y.d), d)
Mul(x, y) ==
    LET g == Gcd(Abs(x.n), y.d)
        h == Gcd(Abs(y.n), x.d)
    IN  Rat((x.n \div g) * (y.n \div h), (x.d \div h) * (y.d \div g))
Div(x, y) == Mul(x, IF y.n < 0 THEN [n |-> -y.d, d |-> -y.n] ELSE [n |-> y.d, d |-> y.n])
Lt(x, y) == LET d == Lcm(x.d, y.d) IN x.n * (d \div x.d) < y.n * (d \div y.d)
Le(x, y) == LET d == Lcm(x.d, y.d) IN x.n * (d \div x.d) <= y.n * (d \div y.d)
Gt(x, y) == Lt(y, x)

\* Sum of the elements of a sequence of numbers: s.reduce((a, b) => a + b, 0).
RECURSIVE SumSeq(_)
SumSeq(s) == IF s = <<>> THEN Zero ELSE Add(SumSeq(SubSeq(s, 1, Len(s) - 1)), s[Len(s)])

\* k * Math.sqrt(r) for rationals k and r >= 0: kept exact, 0 when k is 0.
Surd(k, r) ==
    IF k = Zero \/ r = Zero THEN Zero
    ELSE [k |-> k, sqrt |-> r]

\* Math.pow(base, exponent) - 1 for rationals: kept exact.
PowMinusOne(base, exponent) ==
    IF base = One THEN Zero ELSE [base |-> base, exponent |-> exponent, minus |-> One]

Min2(a, b) == IF a < b THEN a ELSE b

-----------------------------------------------------------------------------
(* Bounds of the model and the input alphabets.                            *)

MaxTx == 3
MaxDays == 4
MaxPairs == 11
MaxCalls == 2
MaxChartDays == 4

Codes == {"A", "B"}
Quantities == {Num(100), Num(150)}
BuyAmounts == {Num(1000), Num(1200)}
SellAmounts == {Num(1000), Num(2250)}

\* The transactions a caller can pass: BUY and SELL records of the data model.
TxAlphabet(t) ==
    [code : Codes, action : {"BUY"}, quantity : Quantities,
     net_amount : BuyAmounts, execution_datetime : {t}]
    \cup
    [code : Codes, action : {"SELL"}, quantity : Quantities,
     net_amount : SellAmounts, execution_datetime : {t}]

\* Execution times of a list of n transactions: any mix of two instants (ties
\* and inversions), or all distinct, in order or reversed.
TimeVals == {1, 2}
TimeAssignments(n) ==
    [1..n -> TimeVals] \cup { [i \in 1..n |-> i], [i \in 1..n |-> n + 1 - i] }

\* The list made of the transactions c with the execution times tm.
TxList(c, tm) == [i \in DOMAIN c |-> [c[i] EXCEPT !.execution_datetime = tm[i]]]

-----------------------------------------------------------------------------
(* calculateWinRate (winRateCalculator)                                    *)

ToLowerCase(s) ==
    CASE s = "BUY" -> "buy"
      [] s = "SELL" -> "sell"
      [] OTHER -> s

\* 'sort' inserts a into an already sorted list behind every element that
\* does not compare greater (dateA - dateB <= 0 keeps the earlier element first).
InsertAtEnd(h, sorted, a) == Append(sorted, a)
RECURSIVE InsertByDate(_, _, _)
InsertByDate(h, sorted, a) ==
    IF sorted = <<>> THEN <<a>>
    ELSE LET last == sorted[Len(sorted)]
         IN  IF h[last].execution_datetime - h[a].execution_datetime <= 0
             THEN Append(sorted, a)
             ELSE Append(InsertByDate(h, SubSeq(sorted, 1, Len(sorted) - 1), a), last)

\* [...transactions].sort((a, b) => dateA - dateB): a sorted copy of the array.
RECURSIVE SortTransactions(_, _)
SortTransactions(h, txs) ==
    IF txs = <<>> THEN <<>>
    ELSE InsertByDate(h, SortTransactions(h, SubSeq(txs, 1, Len(txs) - 1)), txs[Len(txs)])

\* position.buyQueue.push({quantity, price, net_amount, date}): a new object.
BuyLotAliased(h, a) == [heap |-> h, ref |-> a]
BuyLot(h, a) ==
    [heap |-> Append(h, [quantity |-> h[a].quantity,
                         net_amount |-> h[a].net_amount,
                         date |-> h[a].execution_datetime]),
     ref |-> Len(h) + 1]

\* Which lot of the queue a SELL consumes next: buyQueue[0].
OldestBuyLast(queue) == Len(queue)
OldestBuy(queue) == 1

\* The cost a partly consumed lot contributes.
ProportionalCostWhole(consumedQty, lot) == lot.net_amount
ProportionalCost(consumedQty, lot) ==
    Mul(Div(consumedQty, lot.quantity), lot.net_amount)

\* The while loop of a SELL: m = [heap, buyQueue, remainingSellQty, totalBuyCost].
RECURSIVE FifoMatch(_)
FifoMatch(m) ==
    IF ~(Gt(m.remainingSellQty, Zero) /\ Len(m.buyQueue) > 0) THEN m
    ELSE LET k == OldestBuy(m.buyQueue)
             ref == m.buyQueue[k]
             oldestBuy == m.heap[ref]
         IN  IF Le(oldestBuy.quantity, m.remainingSellQty)
             THEN FifoMatch([heap |-> m.heap,
                             buyQueue |-> SubSeq(m.buyQueue, 1, k - 1)
                                          \o SubSeq(m.buyQueue, k + 1, Len(m.buyQueue)),
                             remainingSellQty |-> Sub(m.remainingSellQty, oldestBuy.quantity),
                             totalBuyCost |-> Add(m.totalBuyCost, oldestBuy.net_amount)])
             ELSE LET consumedQty == m.remainingSellQty
                      proportionalCost == ProportionalCost(consumedQty, oldestBuy)
                  IN  FifoMatch([heap |-> [m.heap EXCEPT
                                      ![ref].quantity = Sub(oldestBuy.quantity, consumedQty),
                                      ![ref].net_amount = Sub(oldestBuy.net_amount, proportionalCost)],
                                  buyQueue |-> m.buyQueue,
                                  remainingSellQty |-> Zero,
                                  totalBuyCost |-> Add(m.totalBuyCost, proportionalCost)])

\* if (totalBuyCost > 0): a round trip is recorded only when a buy was matched.
MatchedSomeBuysAlways(totalBuyCost) == TRUE
MatchedSomeBuys(totalBuyCost) == Gt(totalBuyCost, Zero)

\* isWin: pnl > 0.
IsWinNonNegative(pnl) == ~Lt(pnl, Zero)
IsWin(pnl) == Gt(pnl, Zero)

EmptyPosition == [buyQueue |-> <<>>, roundTrips |-> <<>>]

\* const code = tx.code: the key of the position a transaction belongs to.
PositionKeyShared(tx) == "A"
PositionKey(tx) == tx.code

\* One iteration of sortedTransactions.forEach on st = [heap, stockPositions].
ProcessTransaction(st, a) ==
    LET tx == st.heap[a]
        code == PositionKey(tx)
        sp == IF code \in DOMAIN st.stockPositions
              THEN st.stockPositions
              ELSE st.stockPositions @@ (code :> EmptyPosition)
        position == sp[code]
    IN  IF ToLowerCase(tx.action) = "buy"
        THEN LET lot == BuyLot(st.heap, a)
             IN  [heap |-> lot.heap,
                  stockPositions |->
                      [sp EXCEPT ![code].buyQueue = Append(position.buyQueue, lot.ref)]]
        ELSE IF ToLowerCase(tx.action) = "sell"
        THEN LET m == FifoMatch([heap |-> st.heap,
                                 buyQueue |-> position.buyQueue,
                                 remainingSellQty |-> tx.quantity,
                                 totalBuyCost |-> Zero])
                 totalSellRevenue == tx.net_amount
                 pnl == Sub(totalSellRevenue, m.totalBuyCost)
                 trips == IF MatchedSomeBuys(m.totalBuyCost)
                          THEN Append(position.roundTrips,
                                      [pnl |-> pnl, isWin |-> IsWin(pnl),
                                       sellDate |-> tx.execution_datetime])
                          ELSE position.roundTrips
             IN  [heap |-> m.heap,
                  stockPositions |->
                      [sp EXCEPT ![code] = [buyQueue |-> m.buyQueue, roundTrips |-> trips]]]
        ELSE [heap |-> st.heap, stockPositions |-> sp]

\* Number of elements of a sequence that satisfy a test.
CountIf(s, Test(_)) == Cardinality({i \in 1..Len(s) : Test(s[i])})

WinningTrades(sp) ==
    LET f[S \in SUBSET DOMAIN sp] ==
            IF S = {} THEN 0
            ELSE LET c == CHOOSE x \in S : TRUE
                 IN  CountIf(sp[c].roundTrips, LAMBDA t : t.isWin) + f[S \ {c}]
    IN  f[DOMAIN sp]

LosingTrades(sp) ==
    LET f[S \in SUBSET DOMAIN sp] ==
            IF S = {} THEN 0
            ELSE LET c == CHOOSE x \in S : TRUE
                 IN  CountIf(sp[c].roundTrips, LAMBDA t : ~t.isWin) + f[S \ {c}]
    IN  f[DOMAIN sp]

\* The counting loops and the returned record.
WinRateMetrics(sp) ==
    LET winningTrades == WinningTrades(sp)
        losingTrades == LosingTrades(sp)
        totalRoundTrips == winningTrades + losingTrades
    IN  [winRate |-> IF totalRoundTrips > 0
                     THEN Rat(winningTrades, totalRoundTrips) ELSE Zero,
         winningTradesCount |-> winningTrades,
         losingTradesCount |-> losingTrades,
         profitLossRatio |-> IF losingTrades > 0 THEN Rat(winningTrades, losingTrades)
                             ELSE IF winningTrades > 0 THEN Num(winningTrades)
                             ELSE Zero]

\* if (!transactions || transactions.length === 0) return {all zero}
EmptyWinRate ==
    [winRate |-> Zero, winningTradesCount |-> 0, losingTradesCount |-> 0,
     profitLossRatio |-> Zero]

NoTransactions(txs) == IF IsNothing(txs) THEN TRUE ELSE Len(Value(txs)) = 0

-----------------------------------------------------------------------------
(* calculateWinRate as a process: the guard, the sort, one step per        *)
(* forEach iteration, then the counting and the return.                    *)

InitWinRate ==
    /\ \E n \in 0..MaxTx :
         \E c \in [1..n -> TxAlphabet(0)], tm \in TimeAssignments(n) :
            /\ heap = TxList(c, tm)
            /\ transactions \in {Just([i \in 1..n |-> i])}
                               \cup (IF n = 0 THEN {Nothing} ELSE {})
    /\ pc = "start"
    /\ sortedTransactions = <<>>
    /\ pos = 0
    /\ stockPositions = <<>>
    /\ winRateResult = NoResult
    /\ UnusedDrawdown /\ UnusedBenchmark /\ UnusedMetrics /\ UnusedChart /\ UnusedDashboard

WinRateEmpty ==
    /\ pc = "start"
    /\ NoTransactions(transactions)
    /\ winRateResult' = EmptyWinRate
    /\ pc' = "done"
    /\ UNCHANGED <<drawdownVars, benchmarkVars, metricsVars, chartVars, dashboardVars>> /\ UNCHANGED <<heap, transactions, sortedTransactions, pos, stockPositions>>

WinRateSort ==
    /\ pc = "start"
    /\ ~NoTransactions(transactions)
    /\ sortedTransactions' = SortTransactions(heap, Value(transactions))
    /\ pos' = 1
    /\ pc' = "forEach"
    /\ UNCHANGED <<drawdownVars, benchmarkVars, metricsVars, chartVars, dashboardVars>> /\ UNCHANGED <<heap, transactions, stockPositions, winRateResult>>

WinRateForEach ==
    /\ pc = "forEach"
    /\ pos <= Len(sortedTransactions)
    /\ LET st == ProcessTransaction([heap |-> heap, stockPositions |-> stockPositions],
                                    sortedTransactions[pos])
       IN  /\ heap' = st.heap
           /\ stockPositions' = st.stockPositions
    /\ pos' = pos + 1
    /\ UNCHANGED <<drawdownVars, benchmarkVars, metricsVars, chartVars, dashboardVars>> /\ UNCHANGED <<transactions, pc, sortedTransactions, winRateResult>>

WinRateReturn ==
    /\ pc = "forEach"
    /\ pos > Len(sortedTransactions)
    /\ winRateResult' = WinRateMetrics(stockPositions)
    /\ pc' = "done"
    /\ UNCHANGED <<drawdownVars, benchmarkVars, metricsVars, chartVars, dashboardVars>> /\ UNCHANGED <<heap, transactions, sortedTransactions, pos, stockPositions>>

NextWinRate == WinRateEmpty \/ WinRateSort \/ WinRateForEach \/ WinRateReturn

SpecWinRate == InitWinRate /\ [][NextWinRate]_vars

-----------------------------------------------------------------------------
(* performanceMetrics: calculateMaxDrawdown                                *)

\* The trade_date of the i-th day of a series.
TradeDate(i) == "2025-01-" \o (IF i < 10 THEN "0" ELSE "") \o ToString(i)

\* d.field || 0: a missing (or zero) number reads as 0.
OrZero(d, field) == IF field \in DOMAIN d THEN d[field] ELSE Zero

\* dailyPerformances[idx]?.trade_date
TradeDateAt(days, idx) ==
    IF idx \in DOMAIN days /\ "trade_date" \in DOMAIN days[idx]
    THEN days[idx].trade_date ELSE Undefined

\* dailyPerformances.map(d => d.cumulative_return || 0)
CumulativeReturns(days) == [i \in DOMAIN days |-> OrZero(days[i], "cumulative_return")]

\* let peakReturn = cumulativeReturns[0]
InitialPeakZero(cumulativeReturns) == Zero
InitialPeak(cumulativeReturns) == cumulativeReturns[1]

\* The locals before the loop (indices count from 1 here, from 0 in the source).
DrawdownInit(cumulativeReturns) ==
    [i |-> 1, peakReturn |-> InitialPeak(cumulativeReturns), peakIdx |-> 1,
     maxDD |-> Zero, maxDDPeakIdx |-> 1, maxDDTroughIdx |-> 1]

\* One iteration of the loop over cumulativeReturns.
DrawdownStep(l, cumulativeReturns) ==
    LET currentReturn == cumulativeReturns[l.i]
        newHigh == Gt(currentReturn, l.peakReturn)
        peakReturn == IF newHigh THEN currentReturn ELSE l.peakReturn
        peakIdx == IF newHigh THEN l.i ELSE l.peakIdx
        drawdown == Sub(currentReturn, peakReturn)
        deeper == Lt(drawdown, l.maxDD)
    IN  [i |-> l.i + 1, peakReturn |-> peakReturn, peakIdx |-> peakIdx,
         maxDD |-> IF deeper THEN drawdown ELSE l.maxDD,
         maxDDPeakIdx |-> IF deeper THEN peakIdx ELSE l.maxDDPeakIdx,
         maxDDTroughIdx |-> IF deeper THEN l.i ELSE l.maxDDTroughIdx]

RECURSIVE DrawdownLoopFrom(_, _)
DrawdownLoopFrom(l, cumulativeReturns) ==
    IF l.i > Len(cumulativeReturns) THEN l
    ELSE DrawdownLoopFrom(DrawdownStep(l, cumulativeReturns), cumulativeReturns)

\* if (!dailyPerformances || dailyPerformances.length === 0)
NoDays(days) == IF IsNothing(days) THEN TRUE ELSE Len(Value(days)) = 0

NoDrawdown ==
    [maxDrawdown |-> Zero, maxDrawdownPeakDate |-> Null, maxDrawdownTroughDate |-> Null]

DrawdownResult(l, days) ==
    [maxDrawdown |-> l.maxDD,
     maxDrawdownPeakDate |-> TradeDateAt(days, l.maxDDPeakIdx),
     maxDrawdownTroughDate |-> TradeDateAt(days, l.maxDDTroughIdx)]

\* The whole function, as calculateAllMetrics calls it.
CalculateMaxDrawdown(days) ==
    IF NoDays(days) THEN NoDrawdown
    ELSE LET c == CumulativeReturns(Value(days))
         IN  DrawdownResult(DrawdownLoopFrom(DrawdownInit(c), c), Value(days))

\* The cumulative returns a day record can carry (as fractions: 0.05 is 5/100).
CumulativeValues == {Rat(-2, 100), Zero, Rat(3, 100), Rat(5, 100)}

\* The day records of the series: cumulative_return present or missing.
DayRecords(i) ==
    [trade_date : {TradeDate(i)}, cumulative_return : CumulativeValues]
    \cup [trade_date : {TradeDate(i)}]

InitDrawdown ==
    /\ \E n \in 0..MaxDays :
         \E c \in [1..n -> DayRecords(0)] :
            dailyPerformances \in
               {Just([i \in 1..n |-> [c[i] EXCEPT !.trade_date = TradeDate(i)]])}
               \cup (IF n = 0 THEN {Nothing} ELSE {})
    /\ pc = "start"
    /\ drawdownLocals = <<>>
    /\ drawdownMetrics = NoResult
    /\ UnusedWinRate /\ UnusedBenchmark /\ UnusedMetrics /\ UnusedChart /\ UnusedDashboard

DrawdownEmpty ==
    /\ pc = "start"
    /\ NoDays(dailyPerformances)
    /\ drawdownMetrics' = NoDrawdown
    /\ pc' = "done"
    /\ UNCHANGED <<dailyPerformances, drawdownLocals, winRateVars, benchmarkVars, metricsVars, chartVars, dashboardVars>>

DrawdownBegin ==
    /\ pc = "start"
    /\ ~NoDays(dailyPerformances)
    /\ drawdownLocals' = DrawdownInit(CumulativeReturns(Value(dailyPerformances)))
    /\ pc' = "loop"
    /\ UNCHANGED <<dailyPerformances, drawdownMetrics, winRateVars, benchmarkVars, metricsVars, chartVars, dashboardVars>>

DrawdownIterate ==
    /\ pc = "loop"
    /\ drawdownLocals.i <= Len(Value(dailyPerformances))
    /\ drawdownLocals' =
          DrawdownStep(drawdownLocals, CumulativeReturns(Value(dailyPerformances)))
    /\ UNCHANGED <<pc, dailyPerformances, drawdownMetrics, winRateVars, benchmarkVars, metricsVars, chartVars, dashboardVars>>

DrawdownReturn ==
    /\ pc = "loop"
    /\ drawdownLocals.i > Len(Value(dailyPerformances))
    /\ drawdownMetrics' = DrawdownResult(drawdownLocals, Value(dailyPerformances))
    /\ pc' = "done"
    /\ UNCHANGED <<dailyPerformances, drawdownLocals, winRateVars, benchmarkVars, metricsVars, chartVars, dashboardVars>>

NextDrawdown == DrawdownEmpty \/ DrawdownBegin \/ DrawdownIterate \/ DrawdownReturn

SpecDrawdown == InitDrawdown /\ [][NextDrawdown]_vars

-----------------------------------------------------------------------------
(* performanceMetrics: the other daily-series statistics                   *)

RiskFreeRate == Rat(3, 100)
TradingDaysPerYear == 252

Negative(r) == Lt(r, Zero)
Positive(r) == Gt(r, Zero)
Square(r) == Mul(r, r)
Squares(s) == [i \in DOMAIN s |-> Square(s[i])]

\* calculateSortinoRatio(dailyReturns, riskFreeRate = 0.03)
CalculateSortinoRatio(dailyReturns, riskFreeRate) ==
    IF Len(dailyReturns) = 0 THEN Zero
    ELSE LET negativeReturns == SelectSeq(dailyReturns, Negative)
         IN  IF Len(negativeReturns) = 0 THEN Zero
             ELSE LET meanSquare == Div(SumSeq(Squares(negativeReturns)),
                                        Num(Len(negativeReturns)))
                      avgReturn == Mul(Div(SumSeq(dailyReturns), Num(Len(dailyReturns))),
                                       Num(TradingDaysPerYear))
                  IN  IF Gt(meanSquare, Zero)
                      THEN Surd(Sub(avgReturn, riskFreeRate),
                                Div(One, Mul(meanSquare, Num(TradingDaysPerYear))))
                      ELSE Zero

\* The shortest period calculateAnnualReturn annualizes.
MinAnnualDays == 5
PercentScale == 100

\* The calculateAnnualReturn of the earlier orchestrator file: totalReturn is
\* taken for a percentage only when its magnitude is above 10.
CalculateAnnualReturnOld(totalReturn, tradingDays) ==
    IF tradingDays = 0 THEN Zero
    ELSE LET returnDecimal == IF Gt(totalReturn, Num(10)) \/ Lt(totalReturn, Num(-10))
                              THEN Div(totalReturn, Num(PercentScale)) ELSE totalReturn
         IN  IF returnDecimal = Zero THEN Zero
             ELSE PowMinusOne(Add(One, returnDecimal),
                              Div(One, Rat(tradingDays, TradingDaysPerYear)))

\* calculateAnnualReturn(totalReturn, tradingDays): totalReturn is a percentage.
CalculateAnnualReturn(totalReturn, tradingDays) ==
    IF tradingDays = 0 THEN Zero
    ELSE LET returnDecimal == Div(totalReturn, Num(PercentScale))
         IN  IF returnDecimal = Zero THEN Zero
             ELSE IF tradingDays < MinAnnualDays THEN Zero
             ELSE PowMinusOne(Add(One, returnDecimal),
                              Div(One, Rat(tradingDays, TradingDaysPerYear)))

\* Math.max(...cumulativeReturns, 0)
RECURSIVE MaxWith(_, _)
MaxWith(s, m) ==
    IF s = <<>> THEN m
    ELSE MaxWith(SubSeq(s, 2, Len(s)), IF Gt(s[1], m) THEN s[1] ELSE m)

CalculateMaxRise(cumulativeReturns) ==
    IF Len(cumulativeReturns) = 0 THEN Zero ELSE MaxWith(cumulativeReturns, Zero)

\* calculateDailyTradeRate(totalTrades, tradingDays)
CalculateDailyTradeRate(totalTrades, tradingDays) ==
    IF tradingDays = 0 THEN Zero ELSE Div(totalTrades, Num(tradingDays))

\* Which days calculateDailyWinRate counts as profitable: r > 0.
ProfitableDayOrFlat(r) == ~Lt(r, Zero)
ProfitableDay(r) == Gt(r, Zero)

\* calculateDailyWinRate(dailyReturns)
CalculateDailyWinRate(dailyReturns) ==
    IF Len(dailyReturns) = 0 THEN Zero
    ELSE LET profitableDays == Len(SelectSeq(dailyReturns, ProfitableDay))
         IN  Rat(profitableDays, Len(dailyReturns))

\* JavaScript's Infinity, a value apart from every finite number.
InfinityClamped == Zero
Infinity == [infinity |-> TRUE]

\* calculateProfitLossRatio(dailyReturns)
CalculateProfitLossRatio(dailyReturns) ==
    IF Len(dailyReturns) = 0
    THEN [profitLossRatio |-> Zero, winningDaysCount |-> 0, losingDaysCount |-> 0]
    ELSE LET winningDays == SelectSeq(dailyReturns, Positive)
             losingDays == SelectSeq(dailyReturns, Negative)
         IN  IF Len(winningDays) = 0 \/ Len(losingDays) = 0
             THEN [profitLossRatio |-> IF Len(winningDays) > 0 THEN Infinity ELSE Zero,
                   winningDaysCount |-> Len(winningDays),
                   losingDaysCount |-> Len(losingDays)]
             ELSE LET avgProfit == Div(SumSeq(winningDays), Num(Len(winningDays)))
                      meanLoss == Div(SumSeq(losingDays), Num(Len(losingDays)))
                      avgLoss == IF Lt(meanLoss, Zero) THEN Sub(Zero, meanLoss) ELSE meanLoss
                  IN  [profitLossRatio |-> IF Gt(avgLoss, Zero)
                                           THEN Div(avgProfit, avgLoss) ELSE Zero,
                       winningDaysCount |-> Len(winningDays),
                       losingDaysCount |-> Len(losingDays)]

-----------------------------------------------------------------------------
(* benchmarkMetrics                                                        *)

MinPairs == 10

\* if (minLength < 10): too few paired observations.
TooFewPairsBelowNine(minLength) == minLength < MinPairs - 1
TooFewPairs(minLength) == minLength < MinPairs

\* The paired differences strategyReturns[i] - benchmarkReturns[i], i < minLength.
PairedExcess(strategyReturns, benchmarkReturns) ==
    [i \in 1..Min2(Len(strategyReturns), Len(benchmarkReturns)) |->
        Sub(strategyReturns[i], benchmarkReturns[i])]

Mean(s) == Div(SumSeq(s), Num(Len(s)))

\* Sum of (x - mean) ^ 2 over the sequence, divided by its length.
PopulationVariance(s) ==
    LET m == Mean(s) IN Div(SumSeq([i \in DOMAIN s |-> Square(Sub(s[i], m))]), Num(Len(s)))

\* calculateAlphaBeta(strategyReturns, benchmarkReturns, totalStrategyReturn,
\*                    totalBenchmarkReturn, riskFreeRate = 0.03)
CalculateAlphaBeta(strategyReturns, benchmarkReturns, totalStrategyReturn, totalBenchmarkReturn, riskFreeRate) ==
    LET minLength == Min2(Len(strategyReturns), Len(benchmarkReturns))
    IN  IF TooFewPairs(minLength) THEN [alpha |-> Zero, beta |-> Zero]
        ELSE LET sr == SubSeq(strategyReturns, 1, minLength)
                 br == SubSeq(benchmarkReturns, 1, minLength)
                 strategyMean == Mean(sr)
                 benchmarkMean == Mean(br)
                 covariance ==
                     Div(SumSeq([i \in 1..minLength |->
                                   Mul(Sub(sr[i], strategyMean), Sub(br[i], benchmarkMean))]),
                         Num(minLength))
                 benchmarkVariance ==
                     Div(SumSeq([i \in 1..minLength |-> Square(Sub(br[i], benchmarkMean))]),
                         Num(minLength))
                 beta == IF Gt(benchmarkVariance, Zero)
                         THEN Div(covariance, benchmarkVariance) ELSE Zero
                 expectedReturn ==
                     Add(riskFreeRate, Mul(beta, Sub(totalBenchmarkReturn, riskFreeRate)))
             IN  [alpha |-> Sub(totalStrategyReturn, expectedReturn), beta |-> beta]

\* calculateInformationRatio(strategyReturns, benchmarkReturns)
CalculateInformationRatio(strategyReturns, benchmarkReturns) ==
    LET minLength == Min2(Len(strategyReturns), Len(benchmarkReturns))
    IN  IF TooFewPairs(minLength) THEN Zero
        ELSE LET excessReturns == PairedExcess(strategyReturns, benchmarkReturns)
                 meanExcess == Mean(excessReturns)
                 variance == PopulationVariance(excessReturns)
             IN  IF variance = Zero THEN Zero
                 ELSE Surd(meanExcess, Div(Num(TradingDaysPerYear), variance))

\* benchmarkReturns.reduce((sum, r) => sum + r, 0), the total of the earlier
\* benchmarkMetrics.js.
RECURSIVE CalculateBenchmarkReturnSum(_)
CalculateBenchmarkReturnSum(benchmarkReturns) ==
    IF benchmarkReturns = <<>> THEN Zero
    ELSE Add(CalculateBenchmarkReturnSum(SubSeq(benchmarkReturns, 1, Len(benchmarkReturns) - 1)),
             benchmarkReturns[Len(benchmarkReturns)])

\* calculateBenchmarkReturn(benchmarkReturns): (1 + r1) * (1 + r2) * ... - 1
RECURSIVE CompoundProduct(_)
CompoundProduct(s) ==
    IF s = <<>> THEN One
    ELSE Mul(CompoundProduct(SubSeq(s, 1, Len(s) - 1)), Add(One, s[Len(s)]))

CalculateBenchmarkReturn(benchmarkReturns) ==
    IF Len(benchmarkReturns) = 0 THEN Zero
    ELSE Sub(CompoundProduct(benchmarkReturns), One)

\* calculateExcessReturn(strategyReturn, benchmarkReturn)
CalculateExcessReturn(strategyReturn, benchmarkReturn) == Sub(strategyReturn, benchmarkReturn)

\* calculateAvgDailyExcessReturn(strategyReturns, benchmarkReturns)
CalculateAvgDailyExcessReturn(strategyReturns, benchmarkReturns) ==
    LET excessReturns == PairedExcess(strategyReturns, benchmarkReturns)
    IN  IF Len(excessReturns) = 0 THEN Zero ELSE Mean(excessReturns)

\* calculateBenchmarkVolatility(benchmarkReturns)
CalculateBenchmarkVolatility(benchmarkReturns) ==
    IF Len(benchmarkReturns) = 0 THEN Zero
    ELSE Surd(One, Mul(PopulationVariance(benchmarkReturns), Num(TradingDaysPerYear)))

\* The running sums of a sequence.
RECURSIVE RunningSums(_)
RunningSums(s) ==
    IF s = <<>> THEN <<>>
    ELSE LET before == RunningSums(SubSeq(s, 1, Len(s) - 1))
         IN  Append(before, Add(IF before = <<>> THEN Zero ELSE before[Len(before)],
                                s[Len(s)]))

\* The loop of calculateExcessReturnMaxDrawdown over excessReturns[k..]: l = [peak, maxDD].
RECURSIVE ExcessDrawdownFrom(_, _, _)
ExcessDrawdownFrom(l, excessReturns, k) ==
    IF k > Len(excessReturns) THEN l
    ELSE LET current == excessReturns[k]
             peak == IF Gt(current, l.peak) THEN current ELSE l.peak
             drawdown == Sub(current, peak)
         IN  ExcessDrawdownFrom([peak |-> peak,
                                 maxDD |-> IF Lt(drawdown, l.maxDD) THEN drawdown ELSE l.maxDD],
                                excessReturns, k + 1)

\* calculateExcessReturnMaxDrawdown(strategyReturns, benchmarkReturns)
CalculateExcessReturnMaxDrawdown(strategyReturns, benchmarkReturns) ==
    LET excessReturns == RunningSums(PairedExcess(strategyReturns, benchmarkReturns))
    IN  IF Len(excessReturns) = 0 THEN Zero
        ELSE ExcessDrawdownFrom([peak |-> excessReturns[1], maxDD |-> Zero],
                                excessReturns, 1).maxDD

-----------------------------------------------------------------------------
(* calculateAlphaBeta and calculateInformationRatio called on two series.  *)

\* A series of n returns that repeats the pattern p.
Periodic(p, n) == [i \in 1..n |-> p[((i - 1) % Len(p)) + 1]]

StrategyPatterns == [1..2 -> {Rat(1, 100), Rat(-2, 100), Zero}]
BenchmarkPatterns == [1..2 -> {Rat(-1, 100), Rat(2, 100)}]

InitBenchmark ==
    /\ \E ns \in 0..MaxPairs, nb \in 0..MaxPairs :
         \E ps \in StrategyPatterns, pb \in BenchmarkPatterns :
            benchmarkArgs \in
               [strategyReturns : {Periodic(ps, ns)},
                benchmarkReturns : {Periodic(pb, nb)},
                totalStrategyReturn : {Zero, Rat(1187, 10000)},
                totalBenchmarkReturn : {Zero, Rat(8, 100)},
                riskFreeRate : {RiskFreeRate, Zero}]
    /\ alphaBeta = NoResult
    /\ informationRatio = NoResult
    /\ pc = "start"
    /\ UnusedWinRate /\ UnusedDrawdown /\ UnusedMetrics /\ UnusedChart /\ UnusedDashboard

AlphaBetaCall ==
    /\ alphaBeta = NoResult
    /\ alphaBeta' = CalculateAlphaBeta(benchmarkArgs.strategyReturns,
                                       benchmarkArgs.benchmarkReturns,
                                       benchmarkArgs.totalStrategyReturn,
                                       benchmarkArgs.totalBenchmarkReturn,
                                       benchmarkArgs.riskFreeRate)
    /\ UNCHANGED <<pc, benchmarkArgs, informationRatio, winRateVars, drawdownVars, metricsVars, chartVars, dashboardVars>>

InformationRatioCall ==
    /\ informationRatio = NoResult
    /\ informationRatio' = CalculateInformationRatio(benchmarkArgs.strategyReturns,
                                                     benchmarkArgs.benchmarkReturns)
    /\ UNCHANGED <<pc, benchmarkArgs, alphaBeta, winRateVars, drawdownVars, metricsVars, chartVars, dashboardVars>>

NextBenchmark == AlphaBetaCall \/ InformationRatioCall

SpecBenchmark == InitBenchmark /\ [][NextBenchmark]_vars

-----------------------------------------------------------------------------
(* metric_utils/index.js: calculateAllMetrics                              *)

\* calculateWinRate run to its end on the heap h: [result, heap].
RECURSIVE ForEachFrom(_, _, _)
ForEachFrom(st, sorted, k) ==
    IF k > Len(sorted) THEN st
    ELSE ForEachFrom(ProcessTransaction(st, sorted[k]), sorted, k + 1)

CalculateWinRate(h, txs) ==
    IF NoTransactions(txs) THEN [result |-> EmptyWinRate, heap |-> h]
    ELSE LET st == ForEachFrom([heap |-> h, stockPositions |-> <<>>],
                               SortTransactions(h, Value(txs)), 1)
         IN  [result |-> WinRateMetrics(st.stockPositions), heap |-> st.heap]

\* The record returned when performance is null or undefined.
ZeroMetricsOld ==
    [informationRatio |-> Zero, maxRise |-> Zero, dailyTradeRate |-> Zero,
     benchmarkReturn |-> Zero, alpha |-> Zero, beta |-> Zero, winRate |-> Zero,
     annualReturn |-> Zero, maxDrawdown |-> Zero, sortino |-> Zero,
     profitLossRatio |-> Zero, winningTradesCount |-> 0, losingTradesCount |-> 0,
     maxDrawdownPeakDate |-> Null, maxDrawdownTroughDate |-> Null]
ZeroMetrics ==
    [informationRatio |-> Zero, maxRise |-> Zero, dailyTradeRate |-> Zero,
     benchmarkReturn |-> Zero, alpha |-> Zero, beta |-> Zero, winRate |-> Zero,
     dailyWinRate |-> Zero, tradeWinRate |-> Zero, annualReturn |-> Zero,
     maxDrawdown |-> Zero, sortino |-> Zero, profitLossRatio |-> Zero,
     winningDaysCount |-> 0, losingDaysCount |-> 0,
     winningTradesCount |-> 0, losingTradesCount |-> 0, tradeWinLoseRatio |-> Zero,
     maxDrawdownPeakDate |-> Null, maxDrawdownTroughDate |-> Null,
     excessReturn |-> Zero, avgDailyExcessReturn |-> Zero,
     benchmarkVolatility |-> Zero, excessReturnMaxDrawdown |-> Zero]

\* performance.daily_performances && performance.daily_performances.length > 0
HasDays(perf) ==
    IF "daily_performances" \in DOMAIN perf THEN Len(perf.daily_performances) > 0 ELSE FALSE

\* dailyPerformances.map(d => d.daily_return || 0)
DailyReturns(days) == [i \in DOMAIN days |-> OrZero(days[i], "daily_return")]

\* The fields set from the daily performances (the if branch).
DailySeriesFields(perf) ==
    LET days == perf.daily_performances
        cumulativeReturns == CumulativeReturns(days)
        dailyReturns == DailyReturns(days)
        tradingDays == Len(days)
        drawdown == CalculateMaxDrawdown(Just(days))
        plRatioMetrics == CalculateProfitLossRatio(dailyReturns)
    IN  [maxRise |-> CalculateMaxRise(cumulativeReturns),
         dailyTradeRate |-> CalculateDailyTradeRate(OrZero(perf, "total_trades"), tradingDays),
         annualReturn |-> CalculateAnnualReturn(OrZero(perf, "total_return"), tradingDays),
         maxDrawdown |-> drawdown.maxDrawdown,
         maxDrawdownPeakDate |-> drawdown.maxDrawdownPeakDate,
         maxDrawdownTroughDate |-> drawdown.maxDrawdownTroughDate,
         sortino |-> CalculateSortinoRatio(dailyReturns, RiskFreeRate),
         dailyWinRate |-> CalculateDailyWinRate(dailyReturns),
         profitLossRatio |-> plRatioMetrics.profitLossRatio,
         winningDaysCount |-> plRatioMetrics.winningDaysCount,
         losingDaysCount |-> plRatioMetrics.losingDaysCount]

\* The same fields when there are no daily performances (the else branch).
NoDailySeriesFieldsNoDates ==
    [maxRise |-> Zero, dailyTradeRate |-> Zero, annualReturn |-> Zero,
     maxDrawdown |-> Zero, sortino |-> Zero, dailyWinRate |-> Zero,
     profitLossRatio |-> Zero, winningDaysCount |-> 0, losingDaysCount |-> 0]
NoDailySeriesFields ==
    [maxRise |-> Zero, dailyTradeRate |-> Zero, annualReturn |-> Zero,
     maxDrawdown |-> Zero, maxDrawdownPeakDate |-> Null, maxDrawdownTroughDate |-> Null,
     sortino |-> Zero, dailyWinRate |-> Zero, profitLossRatio |-> Zero,
     winningDaysCount |-> 0, losingDaysCount |-> 0]

\* The fields set from calculateWinRate's record.
TradeFields(tradeWinRateMetrics) ==
    LET w == tradeWinRateMetrics.winningTradesCount
        l == tradeWinRateMetrics.losingTradesCount
    IN  [tradeWinRate |-> tradeWinRateMetrics.winRate,
         winningTradesCount |-> w,
         losingTradesCount |-> l,
         tradeWinLoseRatio |-> IF l > 0 THEN Rat(w, l)
                               ELSE IF w > 0 THEN Num(w)
                               ELSE Zero]

\* benchmarkData && benchmarkData.data && performance.daily_performances
HasBenchmark(perf, bench) ==
    IF IsNothing(bench) THEN FALSE
    ELSE "data" \in DOMAIN Value(bench) /\ "daily_performances" \in DOMAIN perf

\* benchmarkData.data.map(d => parseFloat(d.daily_return) || 0): parseFloat of
\* a number is that number, of a missing property NaN, which reads as 0.
BenchmarkReturns(data) == [i \in DOMAIN data |-> OrZero(data[i], "daily_return")]

\* The fields set from the benchmark (the if branch).
BenchmarkFields(perf, bench) ==
    LET strategyReturns == DailyReturns(perf.daily_performances)
        benchmarkReturns == BenchmarkReturns(Value(bench).data)
        benchmarkReturn == CalculateBenchmarkReturn(benchmarkReturns)
        totalStrategyReturnDecimal == Div(OrZero(perf, "total_return"), Num(PercentScale))
        ab == CalculateAlphaBeta(strategyReturns, benchmarkReturns,
                                 totalStrategyReturnDecimal, benchmarkReturn, RiskFreeRate)
    IN  [benchmarkReturn |-> benchmarkReturn,
         alpha |-> ab.alpha,
         beta |-> ab.beta,
         informationRatio |-> CalculateInformationRatio(strategyReturns, benchmarkReturns),
         excessReturn |-> CalculateExcessReturn(totalStrategyReturnDecimal, benchmarkReturn),
         avgDailyExcessReturn |->
             CalculateAvgDailyExcessReturn(strategyReturns, benchmarkReturns),
         benchmarkVolatility |-> CalculateBenchmarkVolatility(benchmarkReturns),
         excessReturnMaxDrawdown |->
             CalculateExcessReturnMaxDrawdown(strategyReturns, benchmarkReturns)]

\* The same fields without a benchmark (the else branch).
NoBenchmarkFieldsOld ==
    [benchmarkReturn |-> Zero, alpha |-> Zero, beta |-> Zero, informationRatio |-> Zero]
NoBenchmarkFields ==
    [benchmarkReturn |-> Zero, alpha |-> Zero, beta |-> Zero, informationRatio |-> Zero,
     excessReturn |-> Zero, avgDailyExcessReturn |-> Zero, benchmarkVolatility |-> Zero,
     excessReturnMaxDrawdown |-> Zero]

\* result.winRate = result.dailyWinRate: the day-level rate is the primary one.
PrimaryWinRateTrade(dailyWinRate, tradeWinRate) == tradeWinRate
PrimaryWinRate(dailyWinRate, tradeWinRate) == dailyWinRate

\* calculateAllMetrics(performance, benchmarkData, transactions) on the heap h:
\* the record it returns and the heap it leaves.
CalculateAllMetrics(perf, bench, h, txs) ==
    IF IsNothing(perf) THEN [result |-> ZeroMetrics, heap |-> h]
    ELSE LET p == Value(perf)
             daily == IF HasDays(p) THEN DailySeriesFields(p) ELSE NoDailySeriesFields
             wr == CalculateWinRate(h, txs)
             trade == TradeFields(wr.result)
             winRate == [winRate |-> PrimaryWinRate(daily.dailyWinRate, trade.tradeWinRate)]
             benchmark == IF HasBenchmark(p, bench) THEN BenchmarkFields(p, bench)
                          ELSE NoBenchmarkFields
         IN  [result |-> daily @@ trade @@ winRate @@ benchmark, heap |-> wr.heap]

-----------------------------------------------------------------------------
(* calculateAllMetrics called, and called again, on the same arguments.    *)

\* Daily returns of a day record: a value, or missing (Nothing).
DailyValues == {Rat(1, 100), Rat(-2, 100), Zero, Rat(3, 100)}
DailyChoices == {Nothing} \cup {Just(v) : v \in DailyValues}

RECURSIVE SumChosen(_, _)
SumChosen(r, k) ==
    IF k = 0 THEN Zero
    ELSE Add(SumChosen(r, k - 1), IF IsNothing(r[k]) THEN Zero ELSE Value(r[k]))

\* The series whose daily returns are r; cumulative_return adds them up.
DaySeries(r) ==
    [i \in DOMAIN r |->
        IF IsNothing(r[i])
        THEN [trade_date |-> TradeDate(i), cumulative_return |-> SumChosen(r, i)]
        ELSE [trade_date |-> TradeDate(i), daily_return |-> Value(r[i]),
              cumulative_return |-> SumChosen(r, i)]]

\* total_return is a percentage (11.87 is 11.87 %).
TotalReturns == {Rat(1187, 100)}
TotalTrades == {Num(6)}

\* performance records: each of the three properties present or missing.
PerformancesWith(days) ==
    [daily_performances : {days}, total_return : TotalReturns, total_trades : TotalTrades]
    \cup [daily_performances : {days}]

PerformancesWithoutDays ==
    [total_return : TotalReturns, total_trades : TotalTrades] \cup {<<>>}

\* Benchmark bars: daily returns of 100 %, -50 % or 0.
BarPatterns == [1..2 -> {One, Rat(-1, 2), Zero}]
Bars(p, n) ==
    [i \in 1..n |-> [date |-> TradeDate(i), close |-> Num(100),
                     daily_return |-> Periodic(p, n)[i]]]

FewBenchmarks ==
    {Nothing, Just(<<>>), Just([data |-> <<>>]),
     Just([data |-> <<[date |-> TradeDate(1), close |-> Num(100)],
                      [date |-> TradeDate(2), close |-> Num(125),
                       daily_return |-> Rat(1, 4)]>>])}

ExampleList ==
    <<[code |-> "A", action |-> "BUY", quantity |-> Num(100), net_amount |-> Num(1000),
       execution_datetime |-> 1],
      [code |-> "A", action |-> "BUY", quantity |-> Num(100), net_amount |-> Num(1200),
       execution_datetime |-> 2],
      [code |-> "A", action |-> "SELL", quantity |-> Num(150), net_amount |-> Num(2250),
       execution_datetime |-> 3]>>

\* A caller's transactions: the heap of its objects and its array.
Caller(l, present) ==
    [heap |-> l, transactions |-> IF present THEN Just([i \in 1..Len(l) |-> i]) ELSE Nothing]

FewCallers == {Caller(<<>>, FALSE), Caller(<<>>, TRUE), Caller(ExampleList, TRUE)}

\* Many daily series, few benchmarks and transaction lists.
InitManyDays ==
    /\ \E n \in 0..MaxDays : \E r \in [1..n -> DailyChoices] :
          performance \in {Just(p) : p \in PerformancesWith(DaySeries(r))}
    /\ benchmarkData \in FewBenchmarks
    /\ \E c \in FewCallers : heap = c.heap /\ transactions = c.transactions

\* No performance or no daily series, few benchmarks and transaction lists.
InitNoDays ==
    /\ performance \in {Nothing} \cup {Just(p) : p \in PerformancesWithoutDays}
    /\ benchmarkData \in FewBenchmarks
    /\ \E c \in FewCallers : heap = c.heap /\ transactions = c.transactions

\* Many transaction lists, few daily series and benchmarks.
InitManyTransactions ==
    /\ performance \in
          {Nothing, Just(<<>>)}
          \cup {Just(p) : p \in PerformancesWith(DaySeries(<<Just(Rat(1, 100))>>))}
    /\ benchmarkData \in {Just(<<>>), Just([data |-> Bars(<<One, Zero>>, 2)])}
    /\ \E n \in 0..MaxTx : \E c \in [1..n -> TxAlphabet(0)] :
          \E cl \in {Caller(TxList(c, [i \in 1..n |-> i]), TRUE)}
                    \cup (IF n = 0 THEN {Caller(<<>>, FALSE)} ELSE {}) :
             heap = cl.heap /\ transactions = cl.transactions

\* Long daily series and benchmarks, one transaction list.
InitManyBars ==
    /\ \E ns \in 0..MaxPairs, nb \in 0..MaxPairs :
         \E ps \in StrategyPatterns, pb \in BarPatterns :
            /\ performance \in
                  {Just(p) : p \in PerformancesWith(
                                DaySeries([i \in 1..ns |-> Just(Periodic(ps, ns)[i])]))}
            /\ benchmarkData = Just([data |-> Bars(pb, nb)])
    /\ heap = ExampleList /\ transactions = Caller(ExampleList, TRUE).transactions

\* A total_return of 1.92 %, and a loss of 5 %.
SmallTotalReturns == {Rat(192, 100), Num(-5)}

\* The days on which the benchmark has a bar: from the strategy's first day
\* on, from the day after it on, or with the second day missing.
BarDays(n) ==
    {[i \in 1..n |-> i], [i \in 1..n |-> i + 1], [i \in 1..n |-> IF i = 1 THEN 1 ELSE i + 1]}

BarsOn(p, on) ==
    [i \in DOMAIN on |-> [date |-> TradeDate(on[i]), close |-> Num(100),
                           daily_return |-> Periodic(p, Len(on))[i]]]

\* A benchmark whose bars are or are not on the strategy's days, short and
\* long, for large and small total returns.
InitOtherBarDays ==
    /\ \E n \in {MaxDays - 1, MaxPairs} :
         \E ps \in StrategyPatterns, pb \in BarPatterns, on \in BarDays(n) :
            /\ performance \in
                  {Just(p) : p \in PerformancesWith(
                                DaySeries([i \in 1..n |-> Just(Periodic(ps, n)[i])]))}
                  \cup {Just([daily_performances |->
                                 DaySeries([i \in 1..n |-> Just(Periodic(ps, n)[i])]),
                              total_return |-> t]) : t \in SmallTotalReturns}
            /\ benchmarkData = Just([data |-> BarsOn(pb, on)])
    /\ heap = ExampleList /\ transactions = Caller(ExampleList, TRUE).transactions

Init ==
    /\ InitNoDays \/ InitManyTransactions \/ InitManyDays \/ InitManyBars \/ InitOtherBarDays
    /\ metrics = <<>>
    /\ pc = "idle"
    /\ sortedTransactions = <<>> /\ pos = 0 /\ stockPositions = <<>> /\ winRateResult = <<>>
    /\ UnusedDrawdown /\ UnusedBenchmark /\ UnusedChart /\ UnusedDashboard

\* A call of calculateAllMetrics; the lots it pushed are garbage once it has
\* returned, the caller's own objects stay at their addresses.
CallCalculateAllMetrics ==
    /\ Len(metrics) < MaxCalls
    /\ metrics' = Append(metrics, CalculateAllMetrics(performance, benchmarkData, heap, transactions).result)
    /\ heap' = SubSeq(CalculateAllMetrics(performance, benchmarkData, heap, transactions).heap, 1, Len(heap))
    /\ UNCHANGED <<pc, performance, benchmarkData, transactions, sortedTransactions, pos,
                   stockPositions, winRateResult, drawdownVars, benchmarkVars, chartVars, dashboardVars>>

Next == CallCalculateAllMetrics

Spec == Init /\ [][Next]_vars

-----------------------------------------------------------------------------
(* App.js: the data of the portfolio value LineChart                       *)

\* benchmarkData && benchmarkData.data
HasData(bench) == IF IsNothing(bench) THEN FALSE ELSE "data" \in DOMAIN Value(bench)

\* benchmarkMap: the bars keyed by date, a later bar of a date replacing an
\* earlier one; close is parseFloat(b.close || 0).
BenchmarkMap(bench) ==
    IF ~HasData(bench) THEN <<>>
    ELSE LET data == Value(bench).data
             dates == {data[i].date : i \in DOMAIN data}
             last(d) == CHOOSE i \in DOMAIN data :
                           /\ data[i].date = d
                           /\ \A k \in DOMAIN data : data[k].date = d => k <= i
         IN  [d \in dates |-> [close |-> OrZero(data[last(d)], "close"),
                               daily_return |-> OrZero(data[last(d)], "daily_return")]]

\* entry && entry.close > 0, for the entry of a date
ValidBar(benchmarkMap, date) ==
    IF date \in DOMAIN benchmarkMap THEN Gt(benchmarkMap[date].close, Zero) ELSE FALSE

\* ((close - firstClose) / firstClose) * 100
PercentFromFirst(close, firstClose) ==
    Mul(Div(Sub(close, firstClose), firstClose), Num(PercentScale))

\* The scan for (let i = idx - 1; i >= 0; i--): i counts from 1 here.
RECURSIVE ScanBack(_, _, _, _)
ScanBack(benchmarkMap, pnl, firstClose, i) ==
    IF i < 1 THEN Zero
    ELSE IF ValidBar(benchmarkMap, pnl[i].date)
         THEN PercentFromFirst(benchmarkMap[pnl[i].date].close, firstClose)
         ELSE ScanBack(benchmarkMap, pnl, firstClose, i - 1)

\* prevBenchmarkValue of day idx
PrevBenchmarkValueZero(benchmarkMap, pnl, firstClose, idx) == Zero
PrevBenchmarkValue(benchmarkMap, pnl, firstClose, idx) ==
    ScanBack(benchmarkMap, pnl, firstClose, idx - 1)

\* The benchmark overlay of day idx, the same code in both display modes.
BenchmarkOverlay(bench, pnl, idx) ==
    LET benchmarkMap == BenchmarkMap(bench)
        firstBenchmarkDate == pnl[1].date
        currentDate == pnl[idx].date
    IN  IF ~HasData(bench) THEN Zero
        ELSE IF ~ValidBar(benchmarkMap, firstBenchmarkDate) THEN Zero
        ELSE LET firstClose == benchmarkMap[firstBenchmarkDate].close
             IN  IF ValidBar(benchmarkMap, currentDate)
                 THEN PercentFromFirst(benchmarkMap[currentDate].close, firstClose)
                 ELSE IF idx > 1
                      THEN PrevBenchmarkValue(benchmarkMap, pnl, firstClose, idx)
                      ELSE Zero

\* The object the map callback returns for day idx (idx 1 is the first day).
ChartPoint(pnl, bench, mode, maxDDPeakDate, maxDDTroughDate, idx) ==
    LET d == pnl[idx]
        initialValue == pnl[1].value
        strategyValue ==
            IF mode = "percentage"
            THEN IF idx = 1 THEN Zero
                 ELSE Mul(Div(Sub(d.value, initialValue), initialValue), Num(PercentScale))
            ELSE d.value
        benchmarkValue ==
            IF mode = "percentage" /\ idx = 1 THEN Zero
            ELSE BenchmarkOverlay(bench, pnl, idx)
    IN  [date |-> d.date, value |-> d.value,
         strategyValue |-> strategyValue,
         benchmarkValue |-> benchmarkValue,
         hasBenchmark |-> ~IsNothing(bench),
         isMaxDDPeak |-> d.date = maxDDPeakDate,
         isMaxDDTrough |-> d.date = maxDDTroughDate]

\* dailyPnl.map((d, idx) => ...), m being the metrics of this render.
ChartData(pnl, bench, mode, m) ==
    [idx \in DOMAIN pnl |->
        ChartPoint(pnl, bench, mode, m.maxDrawdownPeakDate, m.maxDrawdownTroughDate, idx)]

-----------------------------------------------------------------------------
(* The chart rendered, and rendered again when the display mode is set.    *)

DisplayModes == {"absolute", "percentage"}
PortfolioValues == {Num(1000), Num(1100)}

\* What the benchmark holds for a day: no bar, a bar without close, or a bar.
NoBar == "none"
NoClose == "no close"
BarChoices == {NoBar, NoClose, "100", "110", "121"}
CloseOf(c) ==
    CASE c = "100" -> Num(100)
      [] c = "110" -> Num(110)
      [] c = "121" -> Num(121)

BarOf(i, c) ==
    IF c = NoClose THEN [date |-> TradeDate(i)]
    ELSE [date |-> TradeDate(i), close |-> CloseOf(c)]

\* The bars chosen by c for days 1..Len(c), in date order.
RECURSIVE BarsChosen(_, _)
BarsChosen(c, k) ==
    IF k = 0 THEN <<>>
    ELSE IF c[k] = NoBar THEN BarsChosen(c, k - 1)
         ELSE Append(BarsChosen(c, k - 1), BarOf(k, c[k]))

TwoDayPerformance ==
    [daily_performances |-> DaySeries(<<Just(Rat(3, 100)), Just(Rat(-2, 100))>>),
     total_return |-> Rat(1187, 100), total_trades |-> Num(6)]

\* A bar of the benchmark after the last day of dailyPnl.
LaterBar(n) == <<[date |-> TradeDate(n + 1), close |-> Num(121)]>>

InitChart ==
    /\ \E n \in 0..MaxChartDays :
         /\ \E v \in {[i \in 1..n |-> Num(1000)],
                      [i \in 1..n |-> IF i % 2 = 1 THEN Num(1000) ELSE Num(1100)]} :
               dailyPnl = [i \in 1..n |-> [date |-> TradeDate(i), value |-> v[i]]]
         /\ \/ benchmarkData \in {Nothing, Just(<<>>)}
            \/ \E c \in [1..n -> BarChoices], later \in {<<>>, LaterBar(n)} :
                  benchmarkData = Just([data |-> BarsChosen(c, n) \o later])
    /\ valueDisplayMode \in DisplayModes
    /\ performance \in {Nothing, Just(TwoDayPerformance)}
    /\ chartData = <<>>
    /\ pc = "loaded"
    /\ metrics = <<>>
    /\ heap = <<>> /\ transactions = Nothing
    /\ sortedTransactions = <<>> /\ pos = 0 /\ stockPositions = <<>> /\ winRateResult = <<>>
    /\ UnusedDrawdown /\ UnusedBenchmark /\ UnusedDashboard

\* The first render of the chart section: dailyPnl.length > 0 && ...
RenderChart ==
    /\ pc = "loaded"
    /\ Len(dailyPnl) > 0
    /\ metrics' = <<CalculateAllMetrics(performance, benchmarkData, heap, transactions).result>>
    /\ chartData' = ChartData(dailyPnl, benchmarkData, valueDisplayMode, metrics'[1])
    /\ pc' = "rendered"
    /\ UNCHANGED <<dailyPnl, valueDisplayMode, winRateVars, drawdownVars, benchmarkVars,
                   performance, benchmarkData, dashboardVars>>

\* onClick={() => setValueDisplayMode(mode)} and the render that follows.
SetValueDisplayMode(mode) ==
    /\ pc = "rendered"
    /\ valueDisplayMode' = mode
    /\ metrics' = <<CalculateAllMetrics(performance, benchmarkData, heap, transactions).result>>
    /\ chartData' = ChartData(dailyPnl, benchmarkData, mode, metrics'[1])
    /\ UNCHANGED <<pc, dailyPnl, winRateVars, drawdownVars, benchmarkVars,
                   performance, benchmarkData, dashboardVars>>

NextChart == RenderChart \/ \E mode \in DisplayModes : SetValueDisplayMode(mode)

SpecChart == InitChart /\ [][NextChart]_vars

-----------------------------------------------------------------------------
(* Properties of calculateWinRate.                                         *)

\* The lots (quantity, cost) queued for an instrument, oldest first.
QueuedLots(h, sp, code) ==
    IF code \in DOMAIN sp
    THEN [i \in 1..Len(sp[code].buyQueue) |->
            [quantity |-> h[sp[code].buyQueue[i]].quantity,
             net_amount |-> h[sp[code].buyQueue[i]].net_amount]]
    ELSE <<>>

RoundTripsOf(sp, code) == IF code \in DOMAIN sp THEN sp[code].roundTrips ELSE <<>>

RECURSIVE QtySum(_, _)
QtySum(lots, k) == IF k = 0 THEN Zero ELSE Add(QtySum(lots, k - 1), lots[k].quantity)

RECURSIVE CostSum(_, _)
CostSum(lots, k) == IF k = 0 THEN Zero ELSE Add(CostSum(lots, k - 1), lots[k].net_amount)

\* How many of the oldest lots a sell of quantity q takes whole.
WholeLots(lots, q) ==
    CHOOSE k \in 0..Len(lots) :
        /\ Le(QtySum(lots, k), q)
        /\ k < Len(lots) => Gt(QtySum(lots, k + 1), q)

\* What a SELL of quantity q is to leave of the lots, and what it is to cost.
FifoOutcome(lots, q) ==
    LET k == WholeLots(lots, q)
        rest == Sub(q, QtySum(lots, k))
    IN  IF k < Len(lots) /\ Gt(rest, Zero)
        THEN LET part == lots[k + 1]
                 share == Div(Mul(part.net_amount, rest), part.quantity)
             IN  [cost |-> Add(CostSum(lots, k), share),
                  lots |-> <<[quantity |-> Sub(part.quantity, rest),
                              net_amount |-> Sub(part.net_amount, share)]>>
                           \o SubSeq(lots, k + 2, Len(lots))]
        ELSE [cost |-> CostSum(lots, k), lots |-> SubSeq(lots, k + 1, Len(lots))]

SellStep ==
    /\ pc = "forEach"
    /\ pos <= Len(sortedTransactions)
    /\ heap[sortedTransactions[pos]].action = "SELL"
    /\ pos' = pos + 1

\* The list of the example: BUY 100 (cost 1000), BUY 100 (cost 1200), SELL 150 (revenue 2250).
FifoExample ==
    /\ Len(heap) >= 3
    /\ transactions = Just(<<1, 2, 3>>)
    /\ \A i \in 1..3 : heap[i].code = "A" /\ heap[i].execution_datetime = i
    /\ heap[1].action = "BUY" /\ heap[1].quantity = Num(100) /\ heap[1].net_amount = Num(1000)
    /\ heap[2].action = "BUY" /\ heap[2].quantity = Num(100) /\ heap[2].net_amount = Num(1200)
    /\ heap[3].action = "SELL" /\ heap[3].quantity = Num(150) /\ heap[3].net_amount = Num(2250)

\* C3: every SELL consumes the open lots of its instrument oldest first, whole
\* lots at their whole cost and a partly needed lot in proportion, and the
\* round trip it records has pnl = the SELL's net_amount minus that cost; the
\* example list ends with pnl 650, one win, and a lot (50, 600) still queued.
C3_FifoMatching ==
    [][ /\ SellStep =>
            LET tx == heap[sortedTransactions[pos]]
                before == QueuedLots(heap, stockPositions, tx.code)
                expect == FifoOutcome(before, tx.quantity)
                trips == RoundTripsOf(stockPositions, tx.code)
                trips2 == RoundTripsOf(stockPositions', tx.code)
            IN  /\ QueuedLots(heap', stockPositions', tx.code) = expect.lots
                /\ Len(before) > 0 =>
                      /\ Len(trips2) = Len(trips) + 1
                      /\ trips2[Len(trips2)].pnl = Sub(tx.net_amount, expect.cost)
        /\ (FifoExample /\ pc' = "done") =>
              /\ winRateResult'.winningTradesCount = 1
              /\ winRateResult'.losingTradesCount = 0
              /\ stockPositions["A"].roundTrips[1].pnl = Num(650)
              /\ QueuedLots(heap, stockPositions, "A")
                    = <<[quantity |-> Num(50), net_amount |-> Num(600)]>>
      ]_vars

C3_Witness ==
    /\ FifoExample
    /\ pc = "done"
    /\ winRateResult.winningTradesCount = 1
    /\ QueuedLots(heap, stockPositions, "A") = <<[quantity |-> Num(50), net_amount |-> Num(600)]>>

\* The open quantity of an instrument after the first k sorted transactions.
RECURSIVE OpenQty(_, _, _, _)
OpenQty(h, sorted, code, k) ==
    IF k = 0 THEN Zero
    ELSE LET prev == OpenQty(h, sorted, code, k - 1)
             tx == h[sorted[k]]
         IN  IF tx.code # code THEN prev
             ELSE IF tx.action = "BUY" THEN Add(prev, tx.quantity)
             ELSE IF Lt(prev, tx.quantity) THEN Zero
             ELSE Sub(prev, tx.quantity)

\* The SELLs that meet an open quantity of their instrument bought before them.
MatchedSells(h, sorted) ==
    {k \in 1..Len(sorted) :
        /\ h[sorted[k]].action = "SELL"
        /\ Gt(OpenQty(h, sorted, h[sorted[k]].code, k - 1), Zero)}

AllSells(h, sorted) == {k \in 1..Len(sorted) : h[sorted[k]].action = "SELL"}

\* C4: the round trips counted never exceed the SELLs that were at least
\* partly matched against a prior BUY of the same instrument.
C4_TripsBoundedByMatchedSells ==
    pc = "done" =>
        winRateResult.winningTradesCount + winRateResult.losingTradesCount
            <= Cardinality(MatchedSells(heap, sortedTransactions))

C4_Witness ==
    /\ pc = "done"
    /\ winRateResult.winningTradesCount + winRateResult.losingTradesCount >= 1
    /\ Cardinality(MatchedSells(heap, sortedTransactions))
          < Cardinality(AllSells(heap, sortedTransactions))

\* The recorded round trips of all instruments, as (code, index) pairs.
AllTrips(sp) == {<<c, i>> \in (DOMAIN sp) \X (1..MaxTx + 1) : i <= Len(sp[c].roundTrips)}

\* C10: a round trip is counted as a win only when its pnl > 0; one whose pnl
\* is exactly 0 is counted in losingTradesCount.
C10_ZeroPnlIsLoss ==
    pc = "done" /\ ~NoTransactions(transactions) =>
        /\ winRateResult.winningTradesCount =
              Cardinality({t \in AllTrips(stockPositions) :
                              Gt(stockPositions[t[1]].roundTrips[t[2]].pnl, Zero)})
        /\ winRateResult.losingTradesCount =
              Cardinality({t \in AllTrips(stockPositions) :
                              Le(stockPositions[t[1]].roundTrips[t[2]].pnl, Zero)})

C10_Witness ==
    /\ pc = "done"
    /\ winRateResult.losingTradesCount = 1
    /\ winRateResult.winningTradesCount = 0
    /\ \E t \in AllTrips(stockPositions) : stockPositions[t[1]].roundTrips[t[2]].pnl = Zero

-----------------------------------------------------------------------------
(* Properties of calculateMaxDrawdown.                                     *)

\* The largest of c[1..i].
RunningMax(c, i) == CHOOSE m \in {c[j] : j \in 1..i} : \A j \in 1..i : Le(c[j], m)

\* The drawdown of day i: c_i minus the running peak.
DrawdownAt(c, i) == Sub(c[i], RunningMax(c, i))

NonDecreasing(c) == \A i \in 1..Len(c) - 1 : Le(c[i], c[i + 1])

DrawdownExample ==
    dailyPerformances = Just(
        <<[trade_date |-> TradeDate(1), cumulative_return |-> Zero],
          [trade_date |-> TradeDate(2), cumulative_return |-> Rat(5, 100)],
          [trade_date |-> TradeDate(3), cumulative_return |-> Rat(-2, 100)],
          [trade_date |-> TradeDate(4), cumulative_return |-> Rat(3, 100)]>>)

\* C5: maxDrawdown is the minimum over the days of (c_i - running peak of
\* c_0..c_i); it is never positive, and 0 exactly when the series never
\* decreases; the example series gives -0.07, trough at index 2, peak at index 1.
C5_MaxDrawdownIsMinimum ==
    pc = "done" /\ ~NoDays(dailyPerformances) =>
        LET c == CumulativeReturns(Value(dailyPerformances))
            dd == drawdownMetrics.maxDrawdown
        IN  /\ \E i \in 1..Len(c) : DrawdownAt(c, i) = dd
            /\ \A i \in 1..Len(c) : Le(dd, DrawdownAt(c, i))
            /\ Le(dd, Zero)
            /\ dd = Zero <=> NonDecreasing(c)
            /\ DrawdownExample =>
                  /\ dd = Rat(-7, 100)
                  /\ drawdownMetrics.maxDrawdownPeakDate = TradeDate(2)
                  /\ drawdownMetrics.maxDrawdownTroughDate = TradeDate(3)

C5_Witness ==
    /\ pc = "done"
    /\ DrawdownExample
    /\ drawdownMetrics.maxDrawdown = Rat(-7, 100)

-----------------------------------------------------------------------------
(* Properties of the benchmark statistics.                                 *)

PairedDays == Min2(Len(benchmarkArgs.strategyReturns), Len(benchmarkArgs.benchmarkReturns))

\* C8: with fewer than 10 paired daily observations calculateAlphaBeta returns
\* exactly alpha 0 and beta 0 and calculateInformationRatio returns 0, whatever
\* the total returns and the risk-free rate.
C8_TooFewPairsGiveZero ==
    PairedDays < MinPairs =>
        /\ alphaBeta # NoResult => alphaBeta = [alpha |-> Zero, beta |-> Zero]
        /\ informationRatio # NoResult => informationRatio = Zero

C8_Witness ==
    /\ PairedDays = MinPairs - 1
    /\ alphaBeta = [alpha |-> Zero, beta |-> Zero]
    /\ informationRatio = Zero
    /\ benchmarkArgs.totalStrategyReturn # Zero
    /\ benchmarkArgs.totalBenchmarkReturn # Zero
    /\ benchmarkArgs.riskFreeRate # Zero

\* With 10 pairs the same arguments give values other than 0.
C8_EnoughPairsSeen ==
    /\ PairedDays = MinPairs
    /\ alphaBeta # NoResult /\ alphaBeta.alpha # Zero /\ alphaBeta.beta # Zero
    /\ informationRatio # NoResult /\ informationRatio # Zero

-----------------------------------------------------------------------------
(* Properties of calculateAllMetrics.                                      *)

\* The field list of the metrics record.
DateFields == {"maxDrawdownPeakDate", "maxDrawdownTroughDate"}
CountFields ==
    {"winningDaysCount", "losingDaysCount", "winningTradesCount", "losingTradesCount"}
MetricsFields ==
    {"alpha", "beta", "informationRatio",
     "benchmarkReturn", "excessReturn", "avgDailyExcessReturn", "benchmarkVolatility",
     "excessReturnMaxDrawdown",
     "maxDrawdown", "maxDrawdownPeakDate", "maxDrawdownTroughDate",
     "sortino", "annualReturn", "maxRise", "dailyTradeRate",
     "dailyWinRate", "winRate", "tradeWinRate",
     "profitLossRatio", "winningDaysCount", "losingDaysCount",
     "winningTradesCount", "losingTradesCount", "tradeWinLoseRatio"}

AllZero(r) ==
    IF DOMAIN r # MetricsFields THEN FALSE
    ELSE /\ \A f \in DateFields : r[f] = Null
         /\ \A f \in CountFields : r[f] = 0
         /\ \A f \in MetricsFields \ (DateFields \cup CountFields) : r[f] = Zero

\* C1: with performance null or undefined, every call returns, whatever
\* benchmarkData and transactions are, a record in which every numeric field
\* of the list is 0 and both drawdown dates are null.
C1_AbsentPerformanceGivesZeros ==
    IsNothing(performance) => \A i \in DOMAIN metrics : AllZero(metrics[i])

\* A call without performance, with a benchmark and with transactions that
\* hold a winning round trip.
C1_Witness ==
    /\ IsNothing(performance)
    /\ ~IsNothing(benchmarkData)
    /\ ~NoTransactions(transactions)
    /\ CalculateWinRate(heap, transactions).result.winningTradesCount > 0
    /\ Len(metrics) > 0

Complete(r) ==
    IF DOMAIN r # MetricsFields THEN FALSE
    ELSE \A f \in DateFields : r[f] # Undefined

\* C2: with performance present, every call returns a record that has all 24
\* fields of the list, none of them undefined, whether daily_performances is
\* non-empty, empty or absent, benchmarkData present, absent or without data,
\* and transactions empty, absent or non-empty.
C2_AllFieldsPresent ==
    ~IsNothing(performance) => \A i \in DOMAIN metrics : Complete(metrics[i])

\* A call on a performance without daily_performances, without total_return,
\* a benchmark without data and no transactions array.
C2_Witness ==
    /\ performance = Just(<<>>)
    /\ benchmarkData = Just(<<>>)
    /\ IsNothing(transactions)
    /\ Len(metrics) > 0

\* C7: the calls made on the same performance, benchmarkData and transactions
\* return the same record, field by field.
C7_RepeatedCallsAgree ==
    \A i, j \in DOMAIN metrics : metrics[i] = metrics[j]

\* Two calls on BUY 150, SELL 100, SELL 100 of one instrument: the first SELL
\* leaves a partly consumed lot behind, the second SELL takes the rest.
C7_Witness ==
    /\ Len(metrics) = 2
    /\ ~IsNothing(performance)
    /\ Len(heap) = 3
    /\ \A i \in 1..3 : heap[i].code = "A"
    /\ heap[1].action = "BUY" /\ heap[1].quantity = Num(150)
    /\ heap[2].action = "SELL" /\ heap[2].quantity = Num(100)
    /\ heap[3].action = "SELL" /\ heap[3].quantity = Num(100)
    /\ metrics[2].winningTradesCount + metrics[2].losingTradesCount = 2

\* The daily returns as the series gives them, a missing one read as 0.
ReturnOf(day) == IF "daily_return" \in DOMAIN day THEN day.daily_return ELSE Zero
WinningDays(days) == {i \in DOMAIN days : ReturnOf(days[i]).n > 0}

\* C9: dailyWinRate is the number of days with a strictly positive daily
\* return over the number of all days of the series; a day with return 0, or
\* without a return, is in the denominator only.
C9_DailyWinRate ==
    (IF IsNothing(performance) THEN FALSE ELSE HasDays(Value(performance)))
    => LET days == Value(performance).daily_performances
       IN  \A i \in DOMAIN metrics :
              metrics[i].dailyWinRate = Rat(Cardinality(WinningDays(days)), Len(days))

\* The series [0.01, -0.02, 0.0, 0.03] gives 0.5.
C9_Witness ==
    /\ Len(metrics) > 0
    /\ ~IsNothing(performance)
    /\ HasDays(Value(performance))
    /\ DailyReturns(Value(performance).daily_performances)
          = <<Rat(1, 100), Rat(-2, 100), Zero, Rat(3, 100)>>
    /\ metrics[1].dailyWinRate = Rat(1, 2)

-----------------------------------------------------------------------------
(* Properties of the chart data.                                           *)

\* The dates for which benchmarkData.data holds a bar.
BarDates ==
    IF HasData(benchmarkData)
    THEN {Value(benchmarkData).data[i].date : i \in DOMAIN Value(benchmarkData).data}
    ELSE {}

DaysWithBar == {i \in DOMAIN dailyPnl : dailyPnl[i].date \in BarDates}

Rendered == pc = "rendered"

\* C6: in the chart series every day of dailyPnl has its point, and a day
\* whose date has no benchmark bar carries the benchmarkValue of the most
\* recent earlier day that has one, wherever the gap lies.
C6_GapsForwardFilled ==
    Rendered =>
        /\ DOMAIN chartData = DOMAIN dailyPnl
        /\ \A idx \in DOMAIN dailyPnl :
              /\ chartData[idx].date = dailyPnl[idx].date
              /\ \A j \in DaysWithBar :
                    (/\ j < idx
                     /\ \A k \in j + 1..idx : k \notin DaysWithBar)
                    => chartData[idx].benchmarkValue = chartData[j].benchmarkValue

\* Closes 100, 110, none, 121: the gap carries the 10 % of the day before,
\* neither 0 nor a value between 10 and 21.
C6_Witness ==
    /\ Rendered
    /\ Len(dailyPnl) = 4
    /\ DaysWithBar = {1, 2, 4}
    /\ chartData[2].benchmarkValue = Num(10)
    /\ chartData[3].benchmarkValue = Num(10)
    /\ chartData[4].benchmarkValue = Num(21)

-----------------------------------------------------------------------------
(* Further properties of calculateAllMetrics.                              *)

\* C11: in every result both drawdown dates are null whenever maxDrawdown is
\* 0, also for a non-empty series whose cumulative returns never fall below
\* their running peak.
C11_NoDrawdownGivesNullDates ==
    \A i \in DOMAIN metrics :
        metrics[i].maxDrawdown = Zero
        => /\ metrics[i].maxDrawdownPeakDate = Null
           /\ metrics[i].maxDrawdownTroughDate = Null

\* The day-level rate of the series passed in, 0 without a series.
DayLevelRate ==
    IF IsNothing(performance) THEN Zero
    ELSE IF ~HasDays(Value(performance)) THEN Zero
    ELSE LET days == Value(performance).daily_performances
         IN  Rat(Cardinality(WinningDays(days)), Len(days))

\* The trade-level rate that goes with the round trips counted in r.
TradeLevelRate(r) ==
    IF r.winningTradesCount + r.losingTradesCount > 0
    THEN Rat(r.winningTradesCount, r.winningTradesCount + r.losingTradesCount)
    ELSE Zero

\* C12: in every result winRate equals dailyWinRate, the day-level rate, and
\* tradeWinRate is the trade-level rate of the round trips; neither takes the
\* place of the other.
C12_WinRateIsDailyWinRate ==
    \A i \in DOMAIN metrics :
        /\ metrics[i].winRate = metrics[i].dailyWinRate
        /\ metrics[i].dailyWinRate = DayLevelRate
        /\ metrics[i].tradeWinRate = TradeLevelRate(metrics[i])

\* Half of the days won and the one round trip won: the two rates differ.
C12_Witness ==
    /\ Len(metrics) > 0
    /\ metrics[1].winRate = Rat(1, 2)
    /\ metrics[1].tradeWinRate = One
    /\ metrics[1].winningTradesCount = 1

\* The groups of fields of the metrics record.
DayCountFields == {"winningDaysCount", "losingDaysCount"}
DailySeriesNumbers ==
    {"maxRise", "dailyTradeRate", "annualReturn", "maxDrawdown", "sortino",
     "dailyWinRate", "profitLossRatio"}
TradeAttributionFields ==
    {"tradeWinRate", "winningTradesCount", "losingTradesCount", "tradeWinLoseRatio"}
BenchmarkRelativeFields ==
    {"benchmarkReturn", "alpha", "beta", "informationRatio", "excessReturn",
     "avgDailyExcessReturn", "benchmarkVolatility", "excessReturnMaxDrawdown"}

\* What the same call returns when performance carries a two-day series.
WithDailySeries ==
    CalculateAllMetrics(Just(TwoDayPerformance), benchmarkData, heap, transactions).result

NoDailySeries ==
    IF IsNothing(performance) THEN FALSE ELSE ~HasDays(Value(performance))

\* C13: with performance present and daily_performances empty or absent, the
\* nine daily-series fields are 0 and both drawdown dates null, and the four
\* trade fields are what the same transactions give with a non-empty series.
C13_NoDailySeriesZeroesDailyFields ==
    NoDailySeries =>
        \A i \in DOMAIN metrics :
            IF DOMAIN metrics[i] # MetricsFields THEN FALSE
            ELSE /\ \A f \in DailySeriesNumbers : metrics[i][f] = Zero
                 /\ \A f \in DayCountFields : metrics[i][f] = 0
                 /\ \A f \in DateFields : metrics[i][f] = Null
                 /\ LET w == WithDailySeries
                    IN  \A f \in TradeAttributionFields : metrics[i][f] = w[f]

\* An empty daily series, total_return and total_trades set, and transactions
\* with a winning round trip.
C13_Witness ==
    /\ Len(metrics) > 0
    /\ ~IsNothing(performance)
    /\ "total_trades" \in DOMAIN Value(performance)
    /\ "daily_performances" \in DOMAIN Value(performance)
    /\ NoDailySeries
    /\ metrics[1].winningTradesCount = 1
    /\ metrics[1].tradeWinRate = One

\* What the same call returns when a benchmark of two bars is supplied.
WithBenchmark ==
    CalculateAllMetrics(performance, Just([data |-> Bars(<<One, Zero>>, 2)]),
                        heap, transactions).result

\* C14: without benchmarkData, or without its data array, the eight
\* benchmark-relative fields are 0 and every other field is what the same
\* performance and transactions give with a benchmark supplied.
C14_NoBenchmarkZeroesBenchmarkFields ==
    (~IsNothing(performance) /\ ~HasData(benchmarkData)) =>
        \A i \in DOMAIN metrics :
            IF DOMAIN metrics[i] # MetricsFields THEN FALSE
            ELSE /\ \A f \in BenchmarkRelativeFields : metrics[i][f] = Zero
                 /\ LET w == WithBenchmark
                    IN  \A f \in MetricsFields \ BenchmarkRelativeFields :
                           metrics[i][f] = w[f]

\* A benchmark object without data, a series with a drawdown and a winning
\* round trip; the same series with the benchmark has a benchmarkReturn.
C14_Witness ==
    /\ Len(metrics) > 0
    /\ benchmarkData = Just(<<>>)
    /\ ~IsNothing(performance)
    /\ metrics[1].maxDrawdown = Rat(-2, 100)
    /\ metrics[1].winningTradesCount = 1
    /\ WithBenchmark.benchmarkReturn # Zero
    /\ WithBenchmark.benchmarkVolatility # Zero

\* The days of the series with a strictly negative return.
LosingDays(days) == {i \in DOMAIN days : ReturnOf(days[i]).n < 0}

\* The value that stands for JavaScript's Infinity.
IsInfinite(v) == v = [infinity |-> TRUE]

\* C15: the day-level profitLossRatio of a result is infinite when the series
\* has a strictly positive day and no strictly negative one, and 0 when it has
\* neither; the infinite value reaches the result as it is.
C15_InfiniteProfitLossRatio ==
    (IF IsNothing(performance) THEN FALSE ELSE HasDays(Value(performance)))
    => LET days == Value(performance).daily_performances
           wins == Cardinality(WinningDays(days))
           losses == Cardinality(LosingDays(days))
       IN  \A i \in DOMAIN metrics :
              /\ (wins > 0 /\ losses = 0) => IsInfinite(metrics[i].profitLossRatio)
              /\ (wins = 0 /\ losses = 0) => metrics[i].profitLossRatio = Zero
              /\ metrics[i].profitLossRatio
                    = CalculateProfitLossRatio(DailyReturns(days)).profitLossRatio

\* A series of a winning day, a flat day and a day without return.
C15_Witness ==
    /\ Len(metrics) > 0
    /\ ~IsNothing(performance)
    /\ HasDays(Value(performance))
    /\ Len(Value(performance).daily_performances) = 3
    /\ Cardinality(WinningDays(Value(performance).daily_performances)) = 1
    /\ LosingDays(Value(performance).daily_performances) = {}
    /\ IsInfinite(metrics[1].profitLossRatio)

\* C16: a call leaves its inputs as they were: the caller's transaction list
\* keeps its order, every transaction its quantity, net_amount and other
\* properties, and performance and benchmarkData are the same, also when a
\* SELL consumed a BUY lot in part.
C16_InputsUnchanged ==
    [][/\ heap' = heap
       /\ transactions' = transactions
       /\ performance' = performance
       /\ benchmarkData' = benchmarkData]_vars

\* After a call on BUY 100, BUY 100, SELL 150: the second lot was consumed in
\* part and the second BUY still holds 100 for 1200.
C16_Witness ==
    /\ Len(metrics) > 0
    /\ ~IsNothing(performance)
    /\ heap = ExampleList
    /\ heap[2].quantity = Num(100)
    /\ heap[2].net_amount = Num(1200)
    /\ metrics[1].winningTradesCount = 1

-----------------------------------------------------------------------------
(* App.js: the toasts and fetchAllData                                     *)

\* setTimeout(..., 5000) of a Toast, in ticks of one second.
DismissTicks == 5

\* addToast: setToasts(prev => [...prev, { id, message, type }]), id = Date.now()
AddToast(ts, message, type, time) ==
    Append(ts, [id |-> time, message |-> message, type |-> type])

\* removeToast: setToasts(prev => prev.filter(toast => toast.id !== id))
Keeps(toast, id) == toast.id # id
Filter(ts, id) ==
    LET kept == {i \in DOMAIN ts : Keeps(ts[i], id)}
        nth(k) == CHOOSE i \in kept : Cardinality({j \in kept : j <= i}) = k
    IN  [k \in 1..Cardinality(kept) |-> ts[nth(k)]]

\* A render of ToastContainer hands every Toast a new onClose, so the effect
\* of every displayed Toast clears its timer and sets a new one.
TimersAfterRender(n) == [i \in 1..n |-> DismissTicks]

\* The six requests of fetchAllData, in the order of Promise.allSettled.
NumRequests == 6
Sources ==
    <<"summary", "performance", "transactions", "dailyPnl", "holdingsHistory",
      "benchmarkData">>

\* How a request can end: the promise rejected, a response that is not ok, a
\* body json() cannot parse, a parsed body, or a parsed body without the
\* content looked for (daily_values, holdings_by_date, a transaction).
Failures == {"rejected", "notOk", "badBody"}
OutcomesOf(i) ==
    Failures \cup {"ok"} \cup (IF Sources[i] \in {"transactions", "dailyPnl", "holdingsHistory"}
                              THEN {"okEmpty"} ELSE {})

FailureMessage(i) ==
    CASE i = 1 -> "Failed to load portfolio summary. Please try again."
      [] i = 2 -> "Failed to load performance metrics. Please try again."
      [] i = 3 -> "Failed to load transactions. Please try again."
      [] i = 4 -> "Failed to load daily PnL data. Please try again."
      [] i = 5 -> "Failed to load holdings history. Please try again."
      [] i = 6 -> "Failed to load benchmark data. Chart will show strategy only."

UnexpectedMessage == "Unexpected error"

\* The state set from the parsed body of request i. performanceState is the
\* performance of the render that made this fetchAllData.
Stored(a, i, outcome, performanceState) ==
    CASE i = 1 -> [a EXCEPT !.summary = "new"]
      [] i = 2 -> [a EXCEPT !.performance = "new"]
      [] i = 3 -> IF outcome = "ok" /\ performanceState = "oldNoTrades"
                  THEN [a EXCEPT !.transactions = "new", !.performance = "oldWithCounts"]
                  ELSE [a EXCEPT !.transactions = IF outcome = "ok" THEN "new" ELSE "empty"]
      [] i = 4 -> IF outcome = "ok" THEN [a EXCEPT !.dailyPnl = "new"] ELSE a
      [] i = 5 -> IF outcome = "ok" THEN [a EXCEPT !.holdingsHistory = "new"] ELSE a
      [] i = 6 -> [a EXCEPT !.benchmarkData = "new"]

\* The else branch of request i: the toast, and for the benchmark
\* setBenchmarkData(null).
Failed(a, i) == IF i = 6 THEN [a EXCEPT !.benchmarkData = Null] ELSE a

\* finally { if (!silent) setLoading(false) }
Finally(a, silent) == IF silent THEN a ELSE [a EXCEPT !.loading = FALSE]

\* await results[i].value.json() of a body that cannot be parsed: the promise
\* rejects and control goes to the catch block of fetchAllData.
ParseThrows(outcome) == outcome = "badBody"

\* The App before a click on Load Data: nothing loaded yet, or the data of an
\* earlier load, whose performance may lack total_trades.
EarlierLoads == {"none", "old", "oldNoTrades"}
AppAt(strategy, benchmark, earlier, realtime) ==
    [selectedStrategy  |-> strategy,
     selectedBenchmark |-> benchmark,
     startDate         |-> "",
     endDate           |-> "",
     realtimeUpdate    |-> realtime,
     dataLoaded        |-> earlier # "none",
     loading           |-> FALSE,
     summary           |-> IF earlier = "none" THEN Null ELSE "old",
     performance       |-> IF earlier = "none" THEN Null ELSE earlier,
     transactions      |-> IF earlier = "none" THEN "empty" ELSE "old",
     dailyPnl          |-> IF earlier = "none" THEN "empty" ELSE "old",
     holdingsHistory   |-> IF earlier = "none" THEN "empty" ELSE "old",
     benchmarkData     |-> IF earlier = "none" THEN Null ELSE "old"]

Strategies == {"", "strategy_a"}
Benchmarks == {"", "000300.SH"}

notDashboard == <<winRateVars, drawdownVars, benchmarkVars, metricsVars, chartVars>>

InitFetch ==
    /\ pc = "idle"
    /\ UnusedWinRate /\ UnusedDrawdown /\ UnusedBenchmark /\ UnusedMetrics /\ UnusedChart
    /\ \E s \in Strategies, b \in Benchmarks, e \in EarlierLoads :
           \E r \in BOOLEAN : app = AppAt(s, b, e, r)
    /\ toasts = <<>>
    /\ timers = <<>>
    /\ now = 0
    /\ fetchTask = <<>>
    /\ requestLog = <<>>

\* fetchAllData(silent) up to the await of Promise.allSettled.
FetchAllDataAt(at, silent, by) ==
    /\ pc = at
    /\ IF app.selectedStrategy = ""
       THEN /\ toasts' = AddToast(toasts, "Please select a strategy first", "error", now)
            /\ pc' = "done"
            /\ UNCHANGED <<app, fetchTask, requestLog>>
       ELSE IF app.selectedBenchmark = ""
       THEN /\ toasts' = AddToast(toasts, "Loading benchmark data...", "info", now)
            /\ pc' = "done"
            /\ UNCHANGED <<app, fetchTask, requestLog>>
       ELSE /\ app' = [app EXCEPT !.loading = IF silent THEN @ ELSE TRUE,
                                  !.dataLoaded = TRUE]
            /\ fetchTask' = [silent |-> silent, performanceState |-> app.performance,
                             results |-> <<>>, idx |-> 0]
            /\ requestLog' = Append(requestLog,
                                    [by |-> by, strategy |-> app.selectedStrategy,
                                     startDate |-> app.startDate, endDate |-> app.endDate])
            /\ pc' = "awaiting"
            /\ UNCHANGED toasts
    /\ timers' = TimersAfterRender(Len(toasts'))
    /\ UNCHANGED <<now, notDashboard>>

FetchAllData(silent, by) == FetchAllDataAt("idle", silent, by)

\* Promise.allSettled resolves: every request has ended one way or another.
AllSettled ==
    /\ pc = "awaiting"
    /\ \E r \in [1..NumRequests -> Failures \cup {"ok", "okEmpty"}] :
           /\ \A i \in 1..NumRequests : r[i] \in OutcomesOf(i)
           /\ fetchTask' = [fetchTask EXCEPT !.results = r, !.idx = 1]
    /\ pc' = "processing"
    /\ UNCHANGED <<app, toasts, timers, now, requestLog, notDashboard>>

\* The if/else of one request, with the await of its body; after the last
\* one, or from the catch block, the finally block.
ProcessResult ==
    /\ pc = "processing"
    /\ LET i       == fetchTask.idx
           outcome == fetchTask.results[i]
           silent  == fetchTask.silent
           last    == i = NumRequests
       IN  IF outcome \in {"rejected", "notOk"}
           THEN /\ app' = LET a == Failed(app, i)
                          IN  IF last THEN Finally(a, silent) ELSE a
                /\ toasts' = AddToast(toasts, FailureMessage(i), "error", now)
                /\ fetchTask' = [fetchTask EXCEPT !.idx = i + 1]
                /\ pc' = IF last THEN "done" ELSE "processing"
           ELSE IF ParseThrows(outcome)
           THEN /\ toasts' = IF silent THEN toasts
                             ELSE AddToast(toasts, UnexpectedMessage, "error", now)
                /\ app' = Finally(app, silent)
                /\ pc' = "done"
                /\ UNCHANGED fetchTask
           ELSE /\ app' = LET a == Stored(app, i, outcome, fetchTask.performanceState)
                          IN  IF last THEN Finally(a, silent) ELSE a
                /\ fetchTask' = [fetchTask EXCEPT !.idx = i + 1]
                /\ pc' = IF last THEN "done" ELSE "processing"
                /\ UNCHANGED toasts
    /\ timers' = TimersAfterRender(Len(toasts'))
    /\ UNCHANGED <<now, requestLog, notDashboard>>

\* The Load Data button: onClick={() => fetchAllData(false)}
ClickLoadData == FetchAllData(FALSE, "click")

\* performRealtimeUpdate, run by the realtime effect and its interval once
\* the update request succeeded: await fetchAllData(true)
RealtimeRefresh ==
    /\ app.realtimeUpdate /\ app.selectedStrategy # "" /\ app.dataLoaded
    /\ FetchAllData(TRUE, "realtime")

NextFetch ==
    \/ ClickLoadData
    \/ RealtimeRefresh
    \/ AllSettled
    \/ ProcessResult

SpecFetch == InitFetch /\ [][NextFetch]_vars

-----------------------------------------------------------------------------
(* Properties of fetchAllData.                                              *)

\* The result of request j is in the dashboard state. (The performance set
\* from the body may then be replaced, by the transactions branch, with the
\* earlier performance completed with the trade counts.)
IsStored(a, j) ==
    a[Sources[j]] \in {"new"} \cup (IF Sources[j] = "performance" THEN {"oldWithCounts"} ELSE {})

Returned == pc = "done" /\ fetchTask # <<>>

\* C17: when fetchAllData has returned, every request that failed (rejected
\* promise, response not ok, or a body that cannot be parsed) has raised the
\* error toast of its source, no error toast is of another kind, and the result
\* of every other request that succeeded is stored in the dashboard state.
C17_FailureOfOneRequestIsIsolated ==
    IF ~Returned THEN TRUE
    ELSE LET results == fetchTask.results
             failed  == {i \in 1..NumRequests : results[i] \in Failures}
         IN  /\ \A i \in failed : \E k \in DOMAIN toasts : toasts[k].message = FailureMessage(i)
             /\ \A k \in DOMAIN toasts :
                    toasts[k].type = "error" =>
                        \E i \in failed : toasts[k].message = FailureMessage(i)
             /\ failed # {} =>
                    \A j \in 1..NumRequests : results[j] = "ok" => IsStored(app, j)

-----------------------------------------------------------------------------
(* The toasts on the clock: addToast, the X button and the timer of a       *)
(* Toast, and renders of the ToastContainer.  Date.now() counts             *)
(* milliseconds; the timers count whole seconds.                            *)

\* Milliseconds in a tick of the timers.
TickMs == 1000

\* The clock stops after MaxTime ticks, at most MaxMillis milliseconds pass
\* between two ticks, and at most MaxToasts toasts are displayed.
MaxTime == 7
MaxMillis == 1
MaxToasts == 3

ToastMessages == {FailureMessage(1), FailureMessage(2)}

InitToasts ==
    /\ pc = "toasts"
    /\ UnusedWinRate /\ UnusedDrawdown /\ UnusedBenchmark /\ UnusedMetrics /\ UnusedChart
    /\ app = <<>>
    /\ toasts = <<>>
    /\ timers = <<>>
    /\ now = 0
    /\ fetchTask = <<>>
    /\ requestLog = <<>>

\* addToast(message, 'error'): the new state renders the App, the
\* ToastContainer and every Toast.
CallAddToast(message) ==
    /\ pc = "toasts"
    /\ Len(toasts) < MaxToasts
    /\ toasts' = AddToast(toasts, message, "error", now)
    /\ timers' = TimersAfterRender(Len(toasts'))
    /\ UNCHANGED <<pc, app, now, fetchTask, requestLog, notDashboard>>

\* onClose of the k-th displayed Toast: removeToast(toast.id)
OnClose(k) ==
    /\ toasts' = Filter(toasts, toasts[k].id)
    /\ timers' = TimersAfterRender(Len(toasts'))
    /\ UNCHANGED <<pc, app, now, fetchTask, requestLog, notDashboard>>

\* The X button of a Toast.
ClickX ==
    /\ pc = "toasts"
    /\ \E k \in DOMAIN toasts : OnClose(k)

\* The timeout of a Toast's effect is due.
TimerFires ==
    /\ pc = "toasts"
    /\ \E k \in DOMAIN toasts : timers[k] = 0 /\ OnClose(k)

\* The App renders for a reason of its own (any other state set).
Rerender ==
    /\ pc = "toasts"
    /\ toasts # <<>>
    /\ timers' = TimersAfterRender(Len(toasts))
    /\ UNCHANGED <<pc, app, toasts, now, fetchTask, requestLog, notDashboard>>

\* A millisecond passes.
Millisecond ==
    /\ pc = "toasts"
    /\ now % TickMs < MaxMillis
    /\ now' = now + 1
    /\ UNCHANGED <<pc, app, toasts, timers, fetchTask, requestLog, notDashboard>>

\* A second passes; a timeout that is due runs first.
Tick ==
    /\ pc = "toasts"
    /\ now < MaxTime * TickMs
    /\ \A k \in DOMAIN timers : timers[k] > 0
    /\ now' = now + TickMs
    /\ timers' = [k \in DOMAIN timers |-> timers[k] - 1]
    /\ UNCHANGED <<pc, app, toasts, fetchTask, requestLog, notDashboard>>

NextToasts ==
    \/ \E m \in ToastMessages : CallAddToast(m)
    \/ ClickX
    \/ TimerFires
    \/ Rerender
    \/ Millisecond
    \/ Tick

SpecToasts == InitToasts /\ [][NextToasts]_vars

-----------------------------------------------------------------------------
(* Properties of the toasts.                                                *)

RemoveAt(ts, k) == [i \in 1..(Len(ts) - 1) |-> IF i < k THEN ts[i] ELSE ts[i + 1]]

\* C18: several toasts can be displayed together, and a dismissal (the X
\* button or the timer) removes exactly the dismissed toast: the toasts after
\* the step are the toasts before it without one of them.
C18_DismissRemovesExactlyOneToast ==
    [][Len(toasts') < Len(toasts) =>
           \E k \in DOMAIN toasts : toasts' = RemoveAt(toasts, k)]_vars

\* C19: no toast is displayed longer than the five seconds of its timer
\* after it appeared (its id is the time it appeared), whatever renders
\* happened meanwhile.
C19_ToastGoneFiveSecondsAfterItAppeared ==
    pc = "toasts" =>
        \A k \in DOMAIN toasts : now - toasts[k].id <= DismissTicks * TickMs + MaxMillis

-----------------------------------------------------------------------------
(* App.js: the selection (strategy, dates), the realtime toggle and the     *)
(* realtime update effect, around fetchAllData.  The user acts while no     *)
(* request is in flight.                                                    *)

\* At most MaxFetches calls of fetchAllData reach the requests.
MaxFetches == 2

StrategyNames == {"strategy_a", "strategy_b"}
StartDates == {"", "2025-01-01"}
EndDates == {"", "2025-06-30"}
Today == "2025-11-03"

\* The condition under which the realtime effect does not return early.
RealtimeEffectRuns(a) == a.realtimeUpdate /\ a.selectedStrategy # "" /\ a.dataLoaded

\* The realtime effect after a render in which one of its dependencies
\* changed: performRealtimeUpdate() is called at once and posts the
\* realtime-update request.
AfterRender(a, at) == IF RealtimeEffectRuns(a) THEN "updating" ELSE at

\* After fetchStrategies and fetchBenchmarks: a strategy and the benchmark
\* are selected, nothing is loaded, realtimeUpdate is what localStorage held.
InitSelect ==
    /\ pc = "idle"
    /\ UnusedWinRate /\ UnusedDrawdown /\ UnusedBenchmark /\ UnusedMetrics /\ UnusedChart
    /\ \E s \in StrategyNames, r \in BOOLEAN :
           app = AppAt(s, "000300.SH", "none", r)
    /\ toasts = <<>>
    /\ timers = <<>>
    /\ now = 0
    /\ fetchTask = <<>>
    /\ requestLog = <<>>

\* The strategy select: onChange={(e) => setSelectedStrategy(e.target.value)};
\* selectedStrategy is a dependency of the realtime effect.
SetSelectedStrategy(s) ==
    /\ pc = "idle"
    /\ s # app.selectedStrategy
    /\ app' = [app EXCEPT !.selectedStrategy = s]
    /\ pc' = AfterRender(app', "idle")
    /\ timers' = TimersAfterRender(Len(toasts))
    /\ UNCHANGED <<toasts, now, fetchTask, requestLog, notDashboard>>

\* The start date input: onChange={(e) => setStartDate(e.target.value)};
\* startDate is a dependency of fetchAllData, which is one of the effect.
SetStartDate(d) ==
    /\ pc = "idle"
    /\ d # app.startDate
    /\ app' = [app EXCEPT !.startDate = d]
    /\ pc' = AfterRender(app', "idle")
    /\ timers' = TimersAfterRender(Len(toasts))
    /\ UNCHANGED <<toasts, now, fetchTask, requestLog, notDashboard>>

\* The end date input: onChange={(e) => !realtimeUpdate && setEndDate(...)}
SetEndDate(d) ==
    /\ pc = "idle"
    /\ d # app.endDate
    /\ ~app.realtimeUpdate
    /\ app' = [app EXCEPT !.endDate = d]
    /\ pc' = AfterRender(app', "idle")
    /\ timers' = TimersAfterRender(Len(toasts))
    /\ UNCHANGED <<toasts, now, fetchTask, requestLog, notDashboard>>

\* The realtime toggle: setRealtimeUpdate(!realtimeUpdate); when it is set,
\* one effect sets the end date to today and the realtime effect runs.
ToggleRealtime ==
    /\ pc = "idle"
    /\ app' = [app EXCEPT !.realtimeUpdate = ~@,
                          !.endDate = IF app.realtimeUpdate THEN @ ELSE Today]
    /\ pc' = AfterRender(app', "idle")
    /\ timers' = TimersAfterRender(Len(toasts))
    /\ UNCHANGED <<toasts, now, fetchTask, requestLog, notDashboard>>

\* setInterval(performRealtimeUpdate, intervalMs) of the realtime effect.
IntervalFires ==
    /\ pc = "idle"
    /\ RealtimeEffectRuns(app)
    /\ Len(requestLog) < MaxFetches
    /\ pc' = "updating"
    /\ UNCHANGED <<dashboardVars, notDashboard>>

\* The Load Data button while the selection can change.
ClickLoadDataAgain ==
    /\ Len(requestLog) < MaxFetches
    /\ ClickLoadData

\* performRealtimeUpdate once the realtime-update request has answered:
\* fetchAllData(true) on success, a toast otherwise.
RealtimeUpdateAnswers ==
    /\ pc = "updating"
    /\ \/ /\ Len(requestLog) < MaxFetches
          /\ FetchAllDataAt("updating", TRUE, "realtime")
       \/ /\ Len(toasts) < MaxToasts
          /\ \E m \in {"Update warning", "Realtime update failed"} :
                 toasts' = AddToast(toasts, m, IF m = "Update warning" THEN "warning" ELSE "error", now)
          /\ timers' = TimersAfterRender(Len(toasts'))
          /\ pc' = "idle"
          /\ UNCHANGED <<app, now, fetchTask, requestLog, notDashboard>>

\* Every request of fetchAllData answers with a body that parses.
AllSettledOk ==
    /\ pc = "awaiting"
    /\ fetchTask' = [fetchTask EXCEPT !.results = [i \in 1..NumRequests |-> "ok"], !.idx = 1]
    /\ pc' = "processing"
    /\ UNCHANGED <<app, toasts, timers, now, requestLog, notDashboard>>

\* fetchAllData has returned: performRealtimeUpdate, if it was the caller,
\* raises its toast; setDataLoaded and setPerformance changed dataLoaded and
\* fetchAllData, so the realtime effect runs.
FetchReturns ==
    /\ pc = "done"
    /\ toasts' = IF fetchTask.silent
                 THEN AddToast(toasts, "Data refreshed successfully", "success", now)
                 ELSE toasts
    /\ timers' = TimersAfterRender(Len(toasts'))
    /\ pc' = AfterRender(app, "idle")
    /\ fetchTask' = <<>>
    /\ UNCHANGED <<app, now, requestLog, notDashboard>>

NextSelect ==
    \/ \E s \in StrategyNames : SetSelectedStrategy(s)
    \/ \E d \in StartDates : SetStartDate(d)
    \/ \E d \in EndDates : SetEndDate(d)
    \/ ToggleRealtime
    \/ IntervalFires
    \/ ClickLoadDataAgain
    \/ RealtimeUpdateAnswers
    \/ AllSettledOk
    \/ ProcessResult
    \/ FetchReturns

SpecSelect == InitSelect /\ [][NextSelect]_vars

-----------------------------------------------------------------------------
(* Properties of the selection.                                             *)

\* The last fetch made by a click on Load Data among the first i fetches.
LastClick(i) ==
    LET clicks == {j \in 1..i : requestLog[j].by = "click"}
    IN  IF clicks = {} THEN 0 ELSE CHOOSE j \in clicks : \A k \in clicks : k <= j

\* C20: no fetch follows of itself a change the user made to the strategy or
\* to a date: every fetch has the strategy and the dates of the last click on
\* Load Data (but for the end date that the realtime mode sets to today), so
\* a new selection is applied only by a click.
C20_SelectionAppliedOnlyByClick ==
    pc \in {"idle", "updating", "awaiting", "processing", "done"} =>
        \A i \in DOMAIN requestLog :
            /\ LastClick(i) # 0
            /\ requestLog[i].strategy = requestLog[LastClick(i)].strategy
            /\ requestLog[i].startDate = requestLog[LastClick(i)].startDate
            /\ requestLog[i].endDate \in {requestLog[LastClick(i)].endDate, Today}

-----------------------------------------------------------------------------
(* Further properties of calculateWinRate.                                  *)

BuyStep ==
    /\ pc = "forEach"
    /\ pos <= Len(sortedTransactions)
    /\ heap[sortedTransactions[pos]].action = "BUY"
    /\ pos' = pos + 1

AllRoundTrips(sp) == [c \in Codes |-> RoundTripsOf(sp, c)]

\* C21: a SELL that finds the buy queue of its instrument empty records no
\* round trip and changes neither count; a BUY records none either, and the
\* counts returned are those of the recorded round trips only, whatever lots
\* are still queued when the list ends.
C21_UnmatchedSellAndOpenLotsCountNothing ==
    [][ /\ SellStep =>
            LET tx == heap[sortedTransactions[pos]]
            IN  Len(QueuedLots(heap, stockPositions, tx.code)) = 0 =>
                    /\ AllRoundTrips(stockPositions') = AllRoundTrips(stockPositions)
                    /\ WinningTrades(stockPositions') = WinningTrades(stockPositions)
                    /\ LosingTrades(stockPositions') = LosingTrades(stockPositions)
        /\ BuyStep => AllRoundTrips(stockPositions') = AllRoundTrips(stockPositions)
        /\ (pc = "forEach" /\ pc' = "done") =>
              winRateResult'.winningTradesCount + winRateResult'.losingTradesCount
                  = Cardinality(AllTrips(stockPositions))
      ]_vars

\* A list with a SELL that met an empty queue and a BUY lot left over: no
\* round trip, both counts 0.
C21_Witness ==
    /\ pc = "done"
    /\ ~NoTransactions(transactions)
    /\ \E i \in DOMAIN sortedTransactions :
           /\ heap[sortedTransactions[i]].action = "SELL"
           /\ ~Gt(OpenQty(heap, sortedTransactions, heap[sortedTransactions[i]].code, i - 1), Zero)
    /\ \E c \in Codes : Len(QueuedLots(heap, stockPositions, c)) > 0
    /\ winRateResult.winningTradesCount = 0
    /\ winRateResult.losingTradesCount = 0

\* The orders in which a list of n transactions can be handed over.
Orders(n) == {p \in [1..n -> 1..n] : \A i, j \in 1..n : i # j => p[i] # p[j]}

DistinctTimes(h, txs) ==
    \A i, j \in DOMAIN txs :
        i # j => h[txs[i]].execution_datetime # h[txs[j]].execution_datetime

\* The caller's objects, as they were handed over.
CallerHeap == SubSeq(heap, 1, Len(Value(transactions)))

\* C22: the sorted copy holds the caller's transactions in ascending execution
\* time, those of equal time in their input order; and a list of pairwise
\* distinct times gives the same counts and winRate in whatever order it is
\* handed over.
C22_OrderOfInputIsImmaterial ==
    (pc \in {"forEach", "done"} /\ ~NoTransactions(transactions) /\ winRateResult # <<>>) =>
        LET txs == Value(transactions)
            sorted == sortedTransactions
        IN  /\ Len(sorted) = Len(txs)
            /\ {sorted[i] : i \in DOMAIN sorted} = {txs[i] : i \in DOMAIN txs}
            /\ \A i, j \in DOMAIN sorted :
                   i < j =>
                       \/ heap[sorted[i]].execution_datetime < heap[sorted[j]].execution_datetime
                       \/ /\ heap[sorted[i]].execution_datetime = heap[sorted[j]].execution_datetime
                          /\ sorted[i] < sorted[j]
            /\ (pc = "done" /\ DistinctTimes(heap, txs)) =>
                   \A p \in Orders(Len(txs)) :
                       LET other == CalculateWinRate(CallerHeap, Just(p)).result
                       IN  /\ other.winningTradesCount = winRateResult.winningTradesCount
                           /\ other.losingTradesCount = winRateResult.losingTradesCount
                           /\ other.winRate = winRateResult.winRate

\* A BUY handed over after the SELL that closes it, and counted as a win.
C22_Witness ==
    /\ pc = "done"
    /\ transactions = Just(<<1, 2>>)
    /\ heap[1].action = "SELL" /\ heap[2].action = "BUY"
    /\ heap[1].execution_datetime > heap[2].execution_datetime
    /\ winRateResult.winningTradesCount = 1

-----------------------------------------------------------------------------
(* Further properties of calculateMaxDrawdown.                              *)

\* The day of the series that carries a trade_date.
DayOf(days, date) == CHOOSE i \in DOMAIN days : days[i].trade_date = date

\* C23: for a non-empty series the returned dates are those of days p <= t
\* with c_t - c_p = maxDrawdown, where c_p is the running maximum of c_0..c_t
\* and p the first day that reached it, and t is the first day on which the
\* most negative drawdown is attained.
C23_PeakAndTroughProduceMaxDrawdown ==
    (pc = "done" /\ drawdownMetrics # <<>> /\ ~NoDays(dailyPerformances)) =>
        LET days == Value(dailyPerformances)
            c == CumulativeReturns(days)
            dd == drawdownMetrics.maxDrawdown
        IN  /\ \E i \in DOMAIN days : days[i].trade_date = drawdownMetrics.maxDrawdownPeakDate
            /\ \E i \in DOMAIN days : days[i].trade_date = drawdownMetrics.maxDrawdownTroughDate
            /\ LET p == DayOf(days, drawdownMetrics.maxDrawdownPeakDate)
                   t == DayOf(days, drawdownMetrics.maxDrawdownTroughDate)
               IN  /\ p <= t
                   /\ Sub(c[t], c[p]) = dd
                   /\ c[p] = RunningMax(c, t)
                   /\ \A j \in 1..(p - 1) : Lt(c[j], c[p])
                   /\ \A j \in DOMAIN c : Le(DrawdownAt(c, t), DrawdownAt(c, j))
                   /\ \A j \in 1..(t - 1) : Lt(DrawdownAt(c, t), DrawdownAt(c, j))

\* The high and the deepest drawdown both met twice: the first of each is returned.
C23_Witness ==
    /\ pc = "done"
    /\ ~NoDays(dailyPerformances)
    /\ CumulativeReturns(Value(dailyPerformances))
          = <<Rat(5, 100), Rat(-2, 100), Rat(5, 100), Rat(-2, 100)>>
    /\ drawdownMetrics.maxDrawdown = Rat(-7, 100)
    /\ drawdownMetrics.maxDrawdownPeakDate = TradeDate(1)
    /\ drawdownMetrics.maxDrawdownTroughDate = TradeDate(2)

-----------------------------------------------------------------------------
(* Properties of the benchmark-relative fields of calculateAllMetrics.      *)

\* The elements of s at the indices S, in their order.
SubsequenceAt(s, S) ==
    LET nth(k) == CHOOSE i \in S : Cardinality({j \in S : j <= i}) = k
    IN  [k \in 1..Cardinality(S) |-> s[nth(k)]]

\* The strategy's and the benchmark's daily returns of the dates both have.
SameDateStrategyReturns(days, data) ==
    SubsequenceAt(DailyReturns(days),
                  {i \in DOMAIN days : \E j \in DOMAIN data : data[j].date = days[i].trade_date})

SameDateBenchmarkReturns(days, data) ==
    SubsequenceAt(BenchmarkReturns(data),
                  {j \in DOMAIN data : \E i \in DOMAIN days : data[j].date = days[i].trade_date})

ComparedWithBenchmark ==
    IF IsNothing(performance) THEN FALSE
    ELSE /\ HasDays(Value(performance))
         /\ HasBenchmark(Value(performance), benchmarkData)

\* C24: beta, informationRatio, avgDailyExcessReturn and
\* excessReturnMaxDrawdown are computed from pairs of a strategy daily return
\* and the benchmark daily return of the same date, also when the benchmark
\* has no bar on some of the strategy's days or starts on another day.
C24_ExcessReturnsPairSameDates ==
    (pc = "idle" /\ metrics # <<>> /\ ComparedWithBenchmark) =>
        LET days == Value(performance).daily_performances
            data == Value(benchmarkData).data
            s == SameDateStrategyReturns(days, data)
            b == SameDateBenchmarkReturns(days, data)
            m == metrics[1]
        IN  /\ m.avgDailyExcessReturn = CalculateAvgDailyExcessReturn(s, b)
            /\ m.excessReturnMaxDrawdown = CalculateExcessReturnMaxDrawdown(s, b)
            /\ m.informationRatio = CalculateInformationRatio(s, b)
            /\ m.beta = CalculateAlphaBeta(s, b, Zero, Zero, RiskFreeRate).beta

\* The growth of one unit held over the first k bars of the benchmark.
RECURSIVE GrowthOver(_, _)
GrowthOver(data, k) ==
    IF k = 0 THEN One
    ELSE Mul(GrowthOver(data, k - 1), Add(One, OrZero(data[k], "daily_return")))

\* C25: benchmarkReturn is the product of (1 + r) over the benchmark's own
\* daily returns, minus 1, whatever the strategy's returns are, and 0 for a
\* benchmark without bars.
C25_BenchmarkReturnIsCompounded ==
    \A k \in DOMAIN metrics :
        IF IsNothing(performance) THEN TRUE
        ELSE HasBenchmark(Value(performance), benchmarkData) =>
                LET data == Value(benchmarkData).data
                IN  metrics[k].benchmarkReturn =
                        IF data = <<>> THEN Zero
                        ELSE Sub(GrowthOver(data, Len(data)), One)

\* Two bars of 100 % each: the benchmarkReturn is 300 %, not 200 %.
C25_Witness ==
    /\ metrics # <<>>
    /\ ~IsNothing(performance) /\ ~IsNothing(benchmarkData)
    /\ HasBenchmark(Value(performance), benchmarkData)
    /\ BenchmarkReturns(Value(benchmarkData).data) = <<One, One>>
    /\ metrics[1].benchmarkReturn = Num(3)

\* performance.total_return, a percentage, as a decimal.
TotalReturnDecimal(perf) == Div(OrZero(perf, "total_return"), Num(100))

C27_PerformanceIsThisRunsData ==
    IF ~Returned THEN TRUE
    ELSE LET results == fetchTask.results
         IN  (/\ \A i \in 1..NumRequests : ~ParseThrows(results[i])
              /\ results[2] = "ok"
              /\ results[3] \in {"ok", "okEmpty"})
             => app.performance = "new"

\* C28: the return of the fetchAllData of a realtime update does not start
\* a realtime update: an update starts when the interval fires or the user
\* changes the strategy, a date or the toggle.
C28_CompletedUpdateStartsNoUpdate ==
    [][IF pc = "done" /\ fetchTask # <<>>
       THEN fetchTask.silent => pc' # "updating"
       ELSE TRUE]_vars

-----------------------------------------------------------------------------
(* Properties of the buy queues of calculateWinRate.                        *)

IsBuyAt(j) == heap[sortedTransactions[j]].action = "BUY"

\* The BUY that pushed the lot at ref: the lots are made one per BUY, in the
\* order of the sorted list, behind the caller's objects.
CreatingBuy(ref) ==
    LET nth == ref - Len(Value(transactions))
        j == CHOOSE i \in DOMAIN sortedTransactions :
                 IsBuyAt(i) /\ Cardinality({b \in 1..i : IsBuyAt(b)}) = nth
    IN  heap[sortedTransactions[j]]

CostPerUnit(o) == Div(o.net_amount, o.quantity)

\* The quantity of code bought by the first k transactions of the sorted list.
RECURSIVE BoughtQty(_, _)
BoughtQty(code, k) ==
    IF k = 0 THEN Zero
    ELSE LET tx == heap[sortedTransactions[k]]
         IN  Add(BoughtQty(code, k - 1),
                 IF tx.code = code /\ tx.action = "BUY" THEN tx.quantity ELSE Zero)

\* The quantity of code the SELLs among them matched: each SELL its quantity,
\* or what was open before it if that is less.
RECURSIVE MatchedQty(_, _)
MatchedQty(code, k) ==
    IF k = 0 THEN Zero
    ELSE LET tx == heap[sortedTransactions[k]]
             open == Sub(BoughtQty(code, k - 1), MatchedQty(code, k - 1))
         IN  Add(MatchedQty(code, k - 1),
                 IF tx.code = code /\ tx.action = "SELL"
                 THEN IF Lt(open, tx.quantity) THEN open ELSE tx.quantity
                 ELSE Zero)

\* C29: after every transaction processed, each queued lot has a quantity
\* above 0 and the cost per unit of the BUY that created it, and the queued
\* quantities of an instrument sum to what was bought less what the SELLs
\* matched.
C29_QueuedLotsKeepUnitCostAndQuantity ==
    (pc \in {"forEach", "done"} /\ ~NoTransactions(transactions)) =>
        \A code \in DOMAIN stockPositions :
            LET queue == stockPositions[code].buyQueue
                lots == QueuedLots(heap, stockPositions, code)
            IN  /\ \A i \in DOMAIN queue :
                       /\ Gt(heap[queue[i]].quantity, Zero)
                       /\ CreatingBuy(queue[i]).code = code
                       /\ CostPerUnit(heap[queue[i]]) = CostPerUnit(CreatingBuy(queue[i]))
                /\ QtySum(lots, Len(lots))
                       = Sub(BoughtQty(code, pos - 1), MatchedQty(code, pos - 1))

\* A lot of 150 of which a SELL took 100: 50 are queued at the BUY's cost
\* per unit.
C29_Witness ==
    /\ pc = "done"
    /\ "A" \in DOMAIN stockPositions
    /\ Len(stockPositions["A"].buyQueue) = 1
    /\ heap[stockPositions["A"].buyQueue[1]].quantity = Num(50)
    /\ CreatingBuy(stockPositions["A"].buyQueue[1]).quantity = Num(150)
    /\ MatchedQty("A", Len(sortedTransactions)) = Num(100)

\* The caller's transactions of one instrument, in the order handed over.
TransactionsOf(code) ==
    SubsequenceAt(Value(transactions),
                  {i \in DOMAIN Value(transactions) : heap[Value(transactions)[i]].code = code})

\* calculateWinRate on the transactions of one instrument alone.
AloneResult(code) == CalculateWinRate(CallerHeap, Just(TransactionsOf(code))).result

RECURSIVE SumOverCodes(_, _)
SumOverCodes(count(_), codes) ==
    IF codes = {} THEN 0
    ELSE LET c == CHOOSE x \in codes : TRUE
         IN  count(c) + SumOverCodes(count, codes \ {c})

\* C30: a SELL leaves the queued lots of every other instrument as they were,
\* and the counts returned for a list are the sums of the counts returned for
\* each instrument's transactions alone.
C30_InstrumentsAreIndependent ==
    [][ /\ SellStep =>
            \A c \in Codes \ {heap[sortedTransactions[pos]].code} :
                QueuedLots(heap', stockPositions', c) = QueuedLots(heap, stockPositions, c)
        /\ (pc = "forEach" /\ pc' = "done") =>
              /\ winRateResult'.winningTradesCount
                    = SumOverCodes(LAMBDA c : AloneResult(c).winningTradesCount, Codes)
              /\ winRateResult'.losingTradesCount
                    = SumOverCodes(LAMBDA c : AloneResult(c).losingTradesCount, Codes)
      ]_vars

\* BUY of A, then a SELL of B, then a SELL of A: the SELL of B takes nothing
\* of A's lot, the one round trip is A's.
C30_Witness ==
    /\ pc = "done"
    /\ Len(sortedTransactions) = 3
    /\ heap[sortedTransactions[1]].code = "A" /\ heap[sortedTransactions[1]].action = "BUY"
    /\ heap[sortedTransactions[2]].code = "B" /\ heap[sortedTransactions[2]].action = "SELL"
    /\ heap[sortedTransactions[3]].code = "A" /\ heap[sortedTransactions[3]].action = "SELL"
    /\ AloneResult("A").winningTradesCount + AloneResult("A").losingTradesCount = 1
    /\ AloneResult("B").winningTradesCount + AloneResult("B").losingTradesCount = 0
    /\ winRateResult.winningTradesCount + winRateResult.losingTradesCount = 1

=============================================================================
